---- MODULE Spec2Model ----
(***************************************************************************)
(* Model of the dual-text geometry pipeline of                             *)
(* src/services/geometry/generator.ts (generateDualTextGeometry and its    *)
(* helpers).  Lengths are integers in thousandths of a model unit          *)
(* (1 == 0.001), so the code's 0.001 epsilon is 1 and its 0.2 bed          *)
(* tolerance is 200.  A solid of the boolean kernel is a finite set of     *)
(* axis-aligned boxes; the kernel's union, transforms, bounding box and    *)
(* decomposition are computed on that set.                                 *)
(***************************************************************************)
EXTENDS Integers, Sequences, FiniteSets, TLC

(* ------------------------------ bounds -------------------------------- *)
\* Largest number of character positions (intersectionConfig.length).
MaxLen == 2
\* Largest number of kernel calls that fail during one run.
MaxFaults == 1
\* Most components of a solid handed to applyAutoBridge on its own.
MaxComps == 3
\* Settings changes after the mount, and the last instant of the clock.
MaxChanges == 3
MaxTime == 4
\* Calls of getManifold and loadFont in one process.
MaxCalls == 4
\* Pair-configuration ids drawn in one session.
MaxIds == 4
\* Points of one outline before it is cleaned.
MaxPoints == 4

(* ------------------------- program constants -------------------------- *)
\* Degeneracy epsilon 0.001 of the width / height tests.
Eps == 1
\* Bed-touch tolerance 0.2 of the floating-part filter.
TouchTol == 200
\* Auto-bridge: closing tolerance 0.2, overlap margin 0.4, diameter 1.8.
BridgeTol == 200
\* The delay of the auto-generation timer (1000 ms), in clock units.
Delay == 2
BridgeOverlap == 400
BridgeWidth == 1800

(* --------------------------- kernel solids ---------------------------- *)
Box(x0, x1, y0, y1, z0, z1) ==
    [x0 |-> x0, x1 |-> x1, y0 |-> y0, y1 |-> y1, z0 |-> z0, z1 |-> z1]

SetMin(S) == CHOOSE v \in S : \A w \in S : v <= w
SetMax(S) == CHOOSE v \in S : \A w \in S : v >= w

\* boundingBox(): min / max corner of a solid.  The empty solid has an
\* inverted box in the kernel; every extent test on it sees "no extent".
MinX(s) == IF s = {} THEN 0 ELSE SetMin({b.x0 : b \in s})
MaxX(s) == IF s = {} THEN 0 ELSE SetMax({b.x1 : b \in s})
MinY(s) == IF s = {} THEN 0 ELSE SetMin({b.y0 : b \in s})
MaxY(s) == IF s = {} THEN 0 ELSE SetMax({b.y1 : b \in s})
MinZ(s) == IF s = {} THEN 0 ELSE SetMin({b.z0 : b \in s})
MaxZ(s) == IF s = {} THEN 0 ELSE SetMax({b.z1 : b \in s})

\* Centre of an interval whose ends have the same parity (exact halving).
Mid(a, b) == (a + b) \div 2

\* translate([dx, dy, dz])
Translate(s, dx, dy, dz) ==
    { Box(b.x0 + dx, b.x1 + dx, b.y0 + dy, b.y1 + dy, b.z0 + dz, b.z1 + dz)
        : b \in s }

\* scale([sx, sy, 1]) about the origin, sx, sy > 0
Scale(s, sx, sy) ==
    { Box(b.x0 * sx, b.x1 * sx, b.y0 * sy, b.y1 * sy, b.z0, b.z1) : b \in s }

\* rotate([-90, 0, 0]): the Z axis of a primitive becomes the Y axis.
RotateX90(s) ==
    { Box(b.x0, b.x1, b.z0, b.z1, 0 - b.y1, 0 - b.y0) : b \in s }

\* rotate([0, 0, 90]): X and Y extents swap (for a box centred on the origin).
RotateZ90(s) ==
    { Box(0 - b.y1, 0 - b.y0, b.x0, b.x1, b.z0, b.z1) : b \in s }

\* Two boxes belong to one connected component when they overlap or touch.
Touches(a, b) ==
    /\ a.x0 <= b.x1 /\ b.x0 <= a.x1
    /\ a.y0 <= b.y1 /\ b.y0 <= a.y1
    /\ a.z0 <= b.z1 /\ b.z0 <= a.z1

RECURSIVE Reach(_, _)
Reach(seed, s) ==
    LET more == { b \in s : \E c \in seed : Touches(b, c) }
    IN  IF more \subseteq seed THEN seed ELSE Reach(seed \cup more, s)

\* decompose(): the connected components of a solid.
Decompose(s) == { Reach({b}, s) : b \in s }

\* Manifold.union(list)
RECURSIVE UnionAll(_)
UnionAll(list) ==
    IF list = << >> THEN {} ELSE Head(list) \cup UnionAll(Tail(list))

\* A manifold reference of the code: null or a solid.
NULL == [tag |-> "null"]
Manifold(s) == [tag |-> "manifold", boxes |-> s]
IsNull(m) == m.tag = "null"

(* ------------------------------ inputs -------------------------------- *)
\* Snapshots of the global settings a run can be started with (font URL,
\* fontSize, spacing in hundredths, base height / padding, embed depth).
SettingsSet ==
    { [fontUrl |-> "a.ttf", fontSize |-> 20000, spacing |-> 15,
       baseHeight |-> 2000, basePadding |-> 4000, embedDepth |-> 500],
      [fontUrl |-> "a.ttf", fontSize |-> 10000, spacing |-> 0,
       baseHeight |-> 0, basePadding |-> 4000, embedDepth |-> 500],
      [fontUrl |-> "", fontSize |-> 20000, spacing |-> 15,
       baseHeight |-> 2000, basePadding |-> 4000, embedDepth |-> 500] }

\* Characters of a pair: blank, a glyph of the font, one the font lacks.
Chars == {" ", "A", "~"}

\* c.trim() === ''
IsSpace(c) == c \in {"", " "}

\* font.generateShapes + shapesToManifold: the extruded outline of a
\* character (depth along Z), or no solid when the font has no outline.
RawGlyph(c, fontSize) ==
    LET d == fontSize * 5
    IN  IF c = "A" THEN {Box(1000, 9000, 0, 16000, 0, d)} ELSE {}

GetCharManifold(c, fontSize) ==
    IF IsSpace(c) \/ RawGlyph(c, fontSize) = {} THEN NULL
    ELSE Manifold(RawGlyph(c, fontSize))

\* rotate([0, +-45, 0]) of a solid: each box turns about the Y axis; the
\* axis-aligned hull of the turned box is kept (cos 45 ~ 7/10).
Rotate45(s, sign) ==
    { LET cx == Mid(b.x0, b.x1)
          cz == Mid(b.z0, b.z1)
          h  == (((b.x1 - b.x0) + (b.z1 - b.z0)) * 7) \div 20
          nx == ((cx + sign * cz) * 7) \div 10
          nz == ((cz - sign * cx) * 7) \div 10
      IN  Box(nx - h, nx + h, b.y0, b.y1, nz - h, nz + h) : b \in s }

\* Lines 265-272 / 279-286: centre on X and Z, bottom on Y = 0, rotate.
CharSolid(raw, sign) ==
    LET centerX == Mid(MaxX(raw), MinX(raw))
        bottomY == MinY(raw)
        centerZ == Mid(MaxZ(raw), MinZ(raw))
        centered == Translate(raw, 0 - centerX, 0 - bottomY, 0 - centerZ)
    IN  Rotate45(centered, sign)

\* What the kernel's intersect can return for two glyph prisms: a block off
\* the X origin, a two-piece solid, the empty solid, a sliver exactly Eps
\* wide and a solid of no height.
IntersectResults ==
    { {Box(0 - 2000, 6000, 0, 16000, 0 - 4000, 4000)},
      {Box(0 - 500, 500, 0, 10000, 0 - 500, 500),
       Box(0 - 500, 500, 12000, 14000, 0 - 500, 500)},
      {},
      {Box(0, 1, 0, 16000, 0 - 4000, 4000)},
      {Box(0 - 4000, 4000, 0, 0, 0 - 4000, 4000)} }

\* Per-pair overrides (transform, bridge, support) a PairConfig can carry.
DefaultBridge ==
    [enabled |-> TRUE, auto |-> TRUE, width |-> 2000, height |-> 3000,
     depth |-> 2000, moveX |-> 0, moveY |-> 2500, moveZ |-> 0,
     rotationZ |-> 0]

Overrides ==
    { [transform |-> [scaleX |-> 1, scaleY |-> 1, moveX |-> 0, moveZ |-> 0],
       bridge |-> DefaultBridge,
       support |-> [enabled |-> FALSE, type |-> "CYLINDER",
                    height |-> 2500, width |-> 1500]],
      [transform |-> [scaleX |-> 2, scaleY |-> 1, moveX |-> 4000, moveZ |-> 0],
       bridge |-> [DefaultBridge EXCEPT !.enabled = FALSE],
       support |-> [enabled |-> TRUE, type |-> "CYLINDER",
                    height |-> 2500, width |-> 1500]],
      [transform |-> [scaleX |-> 0, scaleY |-> 2, moveX |-> 0 - 6000,
                      moveZ |-> 1000],
       bridge |-> [DefaultBridge EXCEPT !.auto = FALSE, !.rotationZ = 90],
       support |-> [enabled |-> FALSE, type |-> "SQUARE",
                    height |-> 3000, width |-> 1000]] }

(* ------------------------------- state -------------------------------- *)
VARIABLES
    settings,        \* the settings snapshot of the run
    length,          \* intersectionConfig.length
    pc,              \* position of the run in generateDualTextGeometry
    i,               \* loop index
    currentXOffset,  \* layout cursor
    parts,           \* the assembly: sequence of placed parts
    config,          \* intersectionConfig[i]
    m1,              \* character solid of side 1 at this position
    m2,              \* character solid of side 2 at this position
    resultManifold,  \* the pair solid of the position
    finalManifold,   \* result of the final union
    cleanManifold,   \* result of the floating-part filter
    resultGeom,      \* the returned mesh
    error,           \* the error the run rejected with, "none" otherwise
    trace,           \* what happened at the current position
    faults,          \* kernel calls that have failed so far
    log,             \* one entry per finished position
    fontLoad,        \* the awaited loadFont(settings.fontUrl) of the run
    kernelLoad,      \* the awaited getManifold() of the run
    live             \* number of kernel handles created and not yet deleted

posVars == <<config, m1, m2, resultManifold, trace>>
endVars == <<finalManifold, cleanManifold, resultGeom>>
loadVars == <<fontLoad, kernelLoad>>
genVars == <<settings, length, pc, i, currentXOffset, parts, config, m1, m2,
             resultManifold, finalManifold, cleanManifold, resultGeom, error,
             trace, faults, log, fontLoad, kernelLoad, live>>
\* One call of applyAutoBridge on its own.
VARIABLES
    bridgeCall       \* input, sorted order, outcome of the cylinder calls, result

\* The auto-generation effect of App (src/App.tsx).
VARIABLES
    now,                 \* the clock, in units of half the delay
    renders,             \* the settings of every committed change, in order
    timers,              \* every setTimeout of the effect: version, due, state
    generateTimeoutRef,  \* generateTimeoutRef.current: a timer or 0
    generatedGeometry,   \* state generatedGeometry: version it was made of, 0
    isGenerating,        \* state isGenerating
    appError             \* state error: version whose run failed, 0

\* One outline on its way through shapesToManifold.
VARIABLES
    loopRun          \* position, role, points, cleaned loop, oriented loop

\* The kernel handles of one run of generateDualTextGeometry.
VARIABLES
    handleRun        \* position, pair, handles and what was done to them

\* The module caches of loader.ts and text.ts and their callers.
VARIABLES
    wasm,            \* loader.ts: the module instance (the call that made it), 0 for null
    cachedFont,      \* text.ts: the cached font (the URL it was parsed from)
    cachedFontName,  \* text.ts: the URL of the cached font
    callers,         \* each caller of getManifold / loadFont: call and place
    kernelInits,     \* how many times the kernel module was initialised
    fetches          \* how many times each URL was fetched and parsed

\* The settings state that the sync effect of App maintains.
VARIABLES
    text1,               \* settings.text1, a sequence of code points
    text2,               \* settings.text2
    intersectionConfig,  \* settings.intersectionConfig
    supportDefaults,     \* settings.supportEnabled / Type / Height / Radius
    syncPending,         \* the sync effect has to run for the last change
    ids,                 \* number of ids drawn so far
    selectedIdx          \* AdvancedControls: the selected pair, 0 for null

bridgeVars == <<bridgeCall>>
appVars == <<now, renders, timers, generateTimeoutRef, generatedGeometry,
             isGenerating, appError>>
cacheVars == <<wasm, cachedFont, cachedFontName, callers, kernelInits,
               fetches>>
syncVars == <<text1, text2, intersectionConfig, supportDefaults, syncPending,
              ids, selectedIdx>>
\* The variables outside generateDualTextGeometry.
loopVars == <<loopRun>>
handleVars == <<handleRun>>
others == <<bridgeVars, appVars, cacheVars, syncVars, loopVars, handleVars>>
vars == <<genVars, others>>

\* Each part of the program is checked on its own; the variables of the
\* other parts then rest at these values.
BridgeIdle == bridgeCall = [pc |-> "idle"]
LoopIdle == loopRun = [pc |-> "idle"]
HandleIdle == handleRun = [pc |-> "idle"]
AppIdle ==
    /\ now = 0 /\ renders = << >> /\ timers = << >>
    /\ generateTimeoutRef = 0 /\ generatedGeometry = 0
    /\ isGenerating = FALSE /\ appError = 0
CacheIdle ==
    /\ wasm = 0 /\ cachedFont = "" /\ cachedFontName = ""
    /\ callers = << >> /\ kernelInits = 0 /\ fetches = << >>
SyncIdle ==
    /\ text1 = << >> /\ text2 = << >> /\ intersectionConfig = << >>
    /\ supportDefaults = [enabled |-> FALSE, type |-> "CYLINDER",
                          height |-> 2500, width |-> 1500]
    /\ syncPending = FALSE
    /\ ids = 0
    /\ selectedIdx = 0

\* const gap = fontSize * spacing
Gap(st) == (st.fontSize * st.spacing) \div 100
\* (variant: the filler as wide as a full glyph box)
FillerFullSize(st) == Gap(st) + st.fontSize

\* The advance of a position that emits nothing: gap + fontSize * 0.5
Filler(st) == Gap(st) + st.fontSize \div 2

\* Log entry of a position that emitted no letter, and why: "blank" (both
\* sides blank), "noSolid" (no character solid), "threw" / "degenerate"
\* (intersection failed / below Eps), "narrow" (pair solid not above Eps).
Skipped(cur, why) ==
    [emitted |-> FALSE, why |-> why, width |-> 0, cursor |-> cur,
     centerX |-> 0, scaleX |-> 1, moveX |-> 0, moveZ |-> 0, solidX |-> 0]

\* Value of config outside the loop body.
IdleConfig ==
    [char1 |-> "", char2 |-> "", transform |-> [scaleX |-> 1, scaleY |-> 1,
                                                moveX |-> 0, moveZ |-> 0],
     bridge |-> [enabled |-> FALSE, auto |-> FALSE, width |-> 0, height |-> 0,
                 depth |-> 0, moveX |-> 0, moveY |-> 0, moveZ |-> 0,
                 rotationZ |-> 0],
     support |-> [enabled |-> FALSE, type |-> "CYLINDER", height |-> 0,
                  width |-> 0]]

NoTrace ==
    [prepFault |-> "none", isect |-> "none", fault |-> "none",
     entry |-> Skipped(0, "blank")]

Init ==
    /\ settings \in SettingsSet
    /\ length \in 1..MaxLen
    /\ pc = "start"
    /\ i = 0
    /\ currentXOffset = 0
    /\ parts = << >>
    /\ config = IdleConfig
    /\ m1 = NULL /\ m2 = NULL /\ resultManifold = NULL
    /\ finalManifold = NULL /\ cleanManifold = NULL /\ resultGeom = NULL
    /\ error = "none"
    /\ trace = NoTrace
    /\ faults = 0
    /\ log = << >>
    /\ fontLoad = "idle" /\ kernelLoad = "idle"
    /\ live = 0
    /\ BridgeIdle /\ AppIdle /\ CacheIdle /\ SyncIdle /\ LoopIdle /\ HandleIdle

(* ------------------------------ actions ------------------------------- *)
\* A kernel call may fail while the run has faults left; bad tells whether
\* this step's call failed.
Fault(bad) ==
    /\ bad => faults < MaxFaults
    /\ faults' = IF bad THEN faults + 1 ELSE faults

\* Lines 209-214: without a font URL the run rejects at once; otherwise
\* loadFont and getManifold are both started and awaited together.
Start ==
    /\ pc = "start"
    /\ IF settings.fontUrl = ""
         THEN /\ pc' = "failed" /\ error' = "NoFontSelected"
              /\ UNCHANGED loadVars
         ELSE /\ pc' = "await" /\ error' = error
              /\ fontLoad' = "pending" /\ kernelLoad' = "pending"
    /\ UNCHANGED <<others, settings, length, i, currentXOffset, parts, posVars,
                   endVars, faults, log, live>>

\* loadFont settles: the font, or a load / parse error.
FontSettles ==
    /\ pc = "await" /\ fontLoad = "pending"
    /\ \E ok \in BOOLEAN : fontLoad' = IF ok THEN "ready" ELSE "failed"
    /\ UNCHANGED <<others, settings, length, pc, i, currentXOffset, parts,
                   posVars, endVars, error, faults, log, kernelLoad, live>>

\* getManifold settles: the kernel module, or an initialisation error.
KernelSettles ==
    /\ pc = "await" /\ kernelLoad = "pending"
    /\ \E ok \in BOOLEAN : kernelLoad' = IF ok THEN "ready" ELSE "failed"
    /\ UNCHANGED <<others, settings, length, pc, i, currentXOffset, parts,
                   posVars, endVars, error, faults, log, fontLoad, live>>

\* (variant: the run goes on once the font is there)
ResumeOnFont ==
    /\ pc = "await"
    /\ \/ /\ fontLoad = "ready"
          /\ pc' = "loop" /\ error' = error
       \/ /\ fontLoad = "failed"
          /\ pc' = "failed" /\ error' = "LoadFailed"
    /\ UNCHANGED <<others, settings, length, i, currentXOffset, parts, posVars,
                   endVars, faults, log, loadVars, live>>

\* Lines 211-216: Promise.all resolves when both have settled well and
\* rejects as soon as one of them has failed.
Resume ==
    /\ pc = "await"
    /\ \/ /\ fontLoad = "ready" /\ kernelLoad = "ready"
          /\ pc' = "loop" /\ error' = error
       \/ /\ "failed" \in {fontLoad, kernelLoad}
          /\ pc' = "failed" /\ error' = "LoadFailed"
    /\ UNCHANGED <<others, settings, length, i, currentXOffset, parts, posVars,
                   endVars, faults, log, loadVars, live>>

\* The locals of the loop body go out of scope when the position ends.
EndPosition ==
    /\ config' = IdleConfig
    /\ m1' = NULL /\ m2' = NULL /\ resultManifold' = NULL
    /\ trace' = NoTrace

\* (variant: the advance takes half the width, as the centre does)
GlyphAdvanceHalf(width, st) == width \div 2 + Gap(st)

\* Line 383: the advance past an emitted letter.
GlyphAdvance(width, st) == width + Gap(st)

\* Every way a position ends without a letter (lines 245-248, 384-390): the
\* cursor moves by the filler advance.
SkipPosition(why) ==
    /\ currentXOffset' = currentXOffset + Filler(settings)
    /\ i' = i + 1
    /\ log' = Append(log, Skipped(currentXOffset, why))
    /\ pc' = "loop"
    /\ EndPosition

\* Lines 238-248: next position; a pair blank on both sides only advances.
BeginPosition ==
    /\ pc = "loop"
    /\ i < length
    /\ \E c1 \in Chars, c2 \in Chars :
         IF IsSpace(c1) /\ IsSpace(c2)
           THEN SkipPosition("blank")
           ELSE /\ config' = [IdleConfig EXCEPT !.char1 = c1, !.char2 = c2]
                /\ pc' = "chars"
                /\ UNCHANGED <<currentXOffset, i, log, m1, m2,
                               resultManifold, trace>>
    /\ UNCHANGED <<others, loadVars, settings, length, parts, endVars, error,
                   faults, live>>

\* Lines 250-291: build, centre and rotate the two character solids.  A
\* throw while preparing side 1 leaves the try block before side 2 is built.
PrepFaults == {"none", "throw1", "throw2"}

\* Handles left by lines 262-288: raw and centered are deleted once the
\* rotated solid exists, which stays.  The throw of a side is the one of
\* getCharManifold (generateShapes, shapesToManifold), before the side
\* has a handle.
PrepHandles(raw1, raw2, f) ==
    (IF f = "throw1" \/ IsNull(raw1) THEN 0 ELSE 1)
      + (IF f # "none" \/ IsNull(raw2) THEN 0 ELSE 1)

PrepareChars ==
    /\ pc = "chars"
    /\ \E f \in PrepFaults :
         LET raw1 == GetCharManifold(config.char1, settings.fontSize)
             raw2 == GetCharManifold(config.char2, settings.fontSize)
         IN  /\ (f = "throw1") => ~IsSpace(config.char1)
             /\ (f = "throw2") => ~IsSpace(config.char2)
             /\ m1' = IF f = "throw1" \/ IsNull(raw1) THEN NULL
                      ELSE Manifold(CharSolid(raw1.boxes, 1))
             /\ m2' = IF f # "none" \/ IsNull(raw2) THEN NULL
                      ELSE Manifold(CharSolid(raw2.boxes, 0 - 1))
             /\ trace' = [trace EXCEPT !.prepFault = f]
             /\ Fault(f # "none")
             /\ live' = live + PrepHandles(raw1, raw2, f)
    /\ pc' = "combine"
    /\ UNCHANGED <<others, loadVars, settings, length, i, currentXOffset,
                   parts, config, resultManifold, endVars, error, log>>

Width(s) == MaxX(s) - MinX(s)
Height(s) == MaxY(s) - MinY(s)

\* (variant: only the width is tested)
DegenerateWidthOnly(r) == Width(r) < Eps

\* Lines 296-302: an intersection narrower or lower than Eps is dropped.
Degenerate(r) == Width(r) < Eps \/ Height(r) < Eps

\* (variant: the second solid alone is forgotten)
PairResultFirstOnly(a, b, threw, r) ==
    IF ~IsNull(a) /\ ~IsNull(b)
      THEN IF threw \/ Degenerate(r) THEN NULL ELSE Manifold(r)
      ELSE a

\* Lines 293-314: the pair solid.  Both character solids: their intersection
\* r unless the call threw or r is degenerate; one: that solid; none: null.
PairResult(a, b, threw, r) ==
    IF ~IsNull(a) /\ ~IsNull(b)
      THEN IF threw \/ Degenerate(r) THEN NULL ELSE Manifold(r)
      ELSE IF ~IsNull(a) THEN a ELSE b

\* Handles of lines 293-317: the intersection is one new handle, deleted
\* again when degenerate; m1 and m2 are deleted after an intersect; a single
\* side hands its handle on.
CombineHandles(both, dropped) ==
    IF both THEN (IF dropped THEN 0 - 2 ELSE 0 - 1) ELSE 0

\* Lines 293-317 and 388-390: intersect when both solids exist, otherwise
\* take the one that exists; without a pair solid the position is a filler.
Combine ==
    /\ pc = "combine"
    /\ \E threw \in BOOLEAN, r \in IntersectResults :
         LET both == ~IsNull(m1) /\ ~IsNull(m2)
             res == PairResult(m1, m2, threw, r)
             why == IF both
                      THEN IF threw THEN "threw" ELSE "degenerate"
                      ELSE "noSolid"
         IN  /\ threw => both
             /\ Fault(threw)
             /\ live' = live + CombineHandles(both, IsNull(res))
             /\ IF IsNull(res)
               THEN SkipPosition(why)
               ELSE /\ resultManifold' = res
                    /\ m1' = IF both THEN m1 ELSE NULL
                    /\ m2' = IF both \/ ~IsNull(m1) THEN m2 ELSE NULL
                    /\ trace' = [trace EXCEPT
                                   !.isect = IF both THEN "ok" ELSE "none"]
                    /\ pc' = "bridge"
                    /\ UNCHANGED <<currentXOffset, i, log, config>>
    /\ UNCHANGED <<others, loadVars, settings, length, parts, endVars, error>>

\* The run rejects with the exception a kernel call threw outside any try;
\* the throw unwinds the loop body, whose locals go out of scope.
Abort(step) ==
    /\ pc' = "failed"
    /\ error' = "KernelException"
    /\ config' = IdleConfig
    /\ m1' = NULL /\ m2' = NULL /\ resultManifold' = NULL
    /\ trace' = [NoTrace EXCEPT !.fault = step]

\* parts.sort by bounding-box min Y: every order the sort can produce.
SortedOrders(comps) ==
    LET n == Cardinality(comps)
    IN  { q \in [1..n -> comps] :
            /\ \A a, b \in 1..n : a # b => q[a] # q[b]
            /\ \A a \in 1..(n - 1) : MinY(q[a]) <= MinY(q[a + 1]) }

\* Lines 161-190: the connector between two neighbours of the sorted list.
Connector(lower, upper) ==
    LET yMin == MaxY(lower)
        yMax == MinY(upper)
        height == (yMax - yMin) + BridgeOverlap
        centerY == Mid(yMax, yMin)
        avgX == Mid(Mid(MinX(lower), MaxX(lower)), Mid(MinX(upper), MaxX(upper)))
        avgZ == Mid(Mid(MinZ(lower), MaxZ(lower)), Mid(MinZ(upper), MaxZ(upper)))
        r == BridgeWidth \div 2
        cyl == {Box(0 - r, r, 0 - r, r, 0 - (height \div 2), height \div 2)}
    IN  Translate(RotateX90(cyl), avgX, centerY, avgZ)

\* (variant: only gaps below the tolerance are bridged)
NeedsBridgeSmallGap(lower, upper) == MinY(upper) - MaxY(lower) < BridgeTol

\* Line 169: the neighbours that get a connector.
NeedsBridge(lower, upper) == MinY(upper) > MaxY(lower) - BridgeTol

\* Lines 155-194: the connectors of a sorted component list.
BridgeGeoms(q) ==
    { Connector(q[k], q[k + 1]) :
        k \in { a \in 1..(Len(q) - 1) : NeedsBridge(q[a], q[a + 1]) } }

\* Lines 132-206 (applyAutoBridge) for one sorted order; cylOk tells whether
\* the cylinder calls succeeded (a failed one is caught and left out).
ApplyAutoBridge(input, q, cylOk) ==
    IF Cardinality(Decompose(input)) <= 1 THEN input
    ELSE UNION Decompose(input)
           \cup (IF cylOk THEN UNION BridgeGeoms(q) ELSE {})

\* Handles left by applyAutoBridge.  Up to one component: the component
\* decompose returned is never deleted (line 137-140).  Otherwise the
\* components, the connectors and the input are deleted after the union,
\* but each connector leaves its cylinder and its rotated copy behind
\* (lines 188-190 reassign connector without deleting).
BridgeHandles(q, cylOk) ==
    IF Len(q) <= 1 THEN Len(q)
    ELSE IF cylOk THEN 2 * Cardinality(BridgeGeoms(q)) ELSE 0

\* Lines 319-323: the auto bridge replaces the pair solid before layout.
\* The overrides of the pair are drawn here, where the loop body first
\* reads them.
AutoBridge ==
    /\ pc = "bridge"
    /\ \E o \in Overrides :
         LET cfg == [config EXCEPT !.transform = o.transform,
                                   !.bridge = o.bridge,
                                   !.support = o.support]
         IN  IF o.bridge.enabled /\ o.bridge.auto
               THEN \E f \in {"none", "decompose", "cylinder", "union"} :
                      LET comps == Decompose(resultManifold.boxes)
                      IN  /\ (f \in {"cylinder", "union"}) =>
                               Cardinality(comps) > 1
                          /\ Fault(f # "none")
                          /\ IF f \in {"decompose", "union"}
                               THEN Abort("autobridge") /\ live' = live
                               ELSE /\ \E q \in SortedOrders(comps) :
                                         /\ resultManifold' =
                                              Manifold(ApplyAutoBridge(
                                                resultManifold.boxes, q,
                                                f # "cylinder"))
                                         /\ live' = live
                                              + BridgeHandles(q, f # "cylinder")
                                    /\ config' = cfg
                                    /\ pc' = "place"
                                    /\ UNCHANGED <<error, trace, m1, m2>>
               ELSE /\ config' = cfg
                    /\ pc' = "place"
                    /\ UNCHANGED <<resultManifold, error, trace, faults,
                                   m1, m2, live>>
    /\ UNCHANGED <<others, loadVars, settings, length, i, currentXOffset,
                   parts, endVars, log>>

\* config.transform.scaleX || 1
OrOne(v) == IF v = 0 THEN 1 ELSE v

\* Lines 329-338: the placed letter of the pair.
PlaceLetter(solid, cursor, tr) ==
    LET centerX == cursor + Width(solid) \div 2
        transformed == Scale(solid, OrOne(tr.scaleX), OrOne(tr.scaleY))
    IN  Translate(transformed, centerX + tr.moveX, 0, tr.moveZ)

\* Lines 325-339 and 384-387: measure, scale, translate and push the letter
\* (two new handles); a solid no wider than Eps is deleted and the position
\* is a filler.
Place ==
    /\ pc = "place"
    /\ LET solid == resultManifold.boxes
           width == Width(solid)
           centerX == currentXOffset + width \div 2
           finalPos == PlaceLetter(solid, currentXOffset, config.transform)
       IN  IF width > Eps
             THEN \E ok \in BOOLEAN :
                    /\ Fault(~ok)
                    /\ IF ok
                      THEN /\ parts' = Append(parts, [kind |-> "letter",
                                                      pos |-> i,
                                                      solid |-> finalPos])
                           /\ trace' = [trace EXCEPT !.entry =
                                 [emitted |-> TRUE, width |-> width,
                                  cursor |-> currentXOffset,
                                  centerX |-> centerX,
                                  scaleX |-> OrOne(config.transform.scaleX),
                                  moveX |-> config.transform.moveX,
                                  moveZ |-> config.transform.moveZ,
                                  solidX |-> Mid(MinX(solid), MaxX(solid)),
                                  support |-> config.support,
                                  why |-> "letter"]]
                           /\ pc' = "mbridge"
                           /\ live' = live + 2
                           /\ UNCHANGED <<error, currentXOffset, i, log,
                                          config, m1, m2, resultManifold>>
                      ELSE /\ Abort("place")
                           /\ UNCHANGED <<parts, currentXOffset, i, log,
                                          live>>
             ELSE /\ SkipPosition("narrow")
                  /\ live' = live - 1
                  /\ UNCHANGED <<parts, error, faults>>
    /\ UNCHANGED <<others, loadVars, settings, length, endVars>>

\* Lines 345-355: the manual bridge box of the pair.
ManualBridgeBox(br, centerX, tr) ==
    LET cube == {Box(0 - br.width \div 2, br.width \div 2,
                     0 - br.height \div 2, br.height \div 2,
                     0 - br.depth \div 2, br.depth \div 2)}
        bridge == IF br.rotationZ # 0 THEN RotateZ90(cube) ELSE cube
    IN  Translate(bridge, centerX + tr.moveX + br.moveX, br.moveY,
                  tr.moveZ + br.moveZ)

\* (variant: the box is emitted whenever the bridge is enabled)
ManualBridgeAlways ==
    /\ pc = "mbridge"
    /\ IF config.bridge.enabled
         THEN parts' = Append(parts,
                [kind |-> "bridge", pos |-> i,
                 solid |-> ManualBridgeBox(config.bridge,
                             trace.entry.centerX, config.transform)])
         ELSE parts' = parts
    /\ live' = live + (Len(parts') - Len(parts))
    /\ pc' = "support"
    /\ UNCHANGED <<others, loadVars, settings, length, i, currentXOffset,
                   posVars, endVars, error, log, faults>>

\* Lines 341-360: the manual bridge; a failure (of the cube call) is caught
\* and logged.  The cube and its rotated copy are deleted, the positioned
\* box stays in parts.
ManualBridge ==
    /\ pc = "mbridge"
    /\ IF config.bridge.enabled /\ ~config.bridge.auto
         THEN \E ok \in BOOLEAN :
                /\ Fault(~ok)
                /\ IF ok
                  THEN parts' = Append(parts,
                         [kind |-> "bridge", pos |-> i,
                          solid |-> ManualBridgeBox(config.bridge,
                                      trace.entry.centerX, config.transform)])
                  ELSE parts' = parts
         ELSE parts' = parts /\ faults' = faults
    /\ live' = live + (Len(parts') - Len(parts))
    /\ pc' = "support"
    /\ UNCHANGED <<others, loadVars, settings, length, i, currentXOffset,
                   posVars, endVars, error, log>>

\* Lines 110-129: cylinder(height, size, size, 16, true) or
\* cube([2 size, 2 size, height], true), both centred, axis along Z.
CreateSupportPrimitive(height, size) ==
    {Box(0 - size, size, 0 - size, size, 0 - (height \div 2), height \div 2)}

\* (variant: the pillar is centred on the base bottom)
SupportPillarCentred(supp, st, centerX, tr) ==
    LET rotated == RotateX90(CreateSupportPrimitive(supp.height, supp.width))
        baseBottomY == IF st.baseHeight > 0
                         THEN st.embedDepth - st.baseHeight ELSE 0
    IN  Translate(rotated, centerX + tr.moveX, baseBottomY, tr.moveZ)

\* Lines 369-372: the positioned pillar.
SupportPillar(supp, st, centerX, tr) ==
    LET rotated == RotateX90(CreateSupportPrimitive(supp.height, supp.width))
        baseBottomY == IF st.baseHeight > 0
                         THEN st.embedDepth - st.baseHeight ELSE 0
        shiftY == baseBottomY + supp.height \div 2
    IN  Translate(rotated, centerX + tr.moveX, shiftY, tr.moveZ)

\* Lines 362-383: the support pillar (the primitive and its rotated copy
\* are deleted, the positioned pillar stays in parts); then the pair solid
\* and its scaled copy are deleted and the cursor moves past the letter.
Support ==
    /\ pc = "support"
    /\ \E f \in {"none", "primitive", "transform"} :
         /\ (f # "none") => config.support.enabled
         /\ Fault(f # "none")
         /\ IF config.support.enabled /\ f = "transform"
           THEN /\ Abort("support")
                /\ UNCHANGED <<parts, currentXOffset, i, log, live>>
           ELSE /\ parts' =
                     IF config.support.enabled /\ f = "none"
                       THEN Append(parts,
                              [kind |-> "support", pos |-> i,
                               solid |-> SupportPillar(config.support, settings,
                                           trace.entry.centerX,
                                           config.transform)])
                       ELSE parts
                /\ currentXOffset' = currentXOffset
                                       + GlyphAdvance(trace.entry.width, settings)
                /\ i' = i + 1
                /\ log' = Append(log, trace.entry)
                /\ pc' = "loop"
                /\ EndPosition
                /\ error' = error
                /\ live' = live + (Len(parts') - Len(parts)) - 2
    /\ UNCHANGED <<others, loadVars, settings, length, endVars>>

\* (variant: the empty assembly is not rejected)
CheckPartsNoThrow ==
    /\ pc = "loop"
    /\ i >= length
    /\ pc' = "base"
    /\ UNCHANGED <<others, loadVars, settings, length, i, currentXOffset,
                   parts, posVars, endVars, error, faults, log, live>>

\* Lines 393-395: nothing was emitted.
CheckParts ==
    /\ pc = "loop"
    /\ i >= length
    /\ IF Len(parts) = 0
         THEN pc' = "failed" /\ error' = "NoPrintableGeometry"
         ELSE pc' = "base" /\ error' = error
    /\ UNCHANGED <<others, loadVars, settings, length, i, currentXOffset,
                   parts, posVars, endVars, faults, log, live>>

\* The solids of the assembly, in order.
Solids(ps) == [k \in 1..Len(ps) |-> ps[k].solid]

\* (variant: the plate hangs below Y = 0 whatever the embed depth)
BaseSolidBelowBed(ps, st) ==
    LET lettersUnion == UnionAll(Solids(ps))
        width == (MaxX(lettersUnion) - MinX(lettersUnion)) + st.basePadding
        depth == (MaxZ(lettersUnion) - MinZ(lettersUnion)) + st.basePadding
        raw == {Box(0 - width \div 2, width \div 2,
                    0 - depth \div 2, depth \div 2, 0, st.baseHeight)}
    IN  Translate(RotateX90(raw),
                  Mid(MaxX(lettersUnion), MinX(lettersUnion)),
                  0 - st.baseHeight,
                  Mid(MaxZ(lettersUnion), MinZ(lettersUnion)))

\* Lines 400-436: the base plate under the bounding box of the assembly.
\* Rounded rectangle and oval have the same bounding box.
BaseSolid(ps, st) ==
    LET lettersUnion == UnionAll(Solids(ps))
        fullX == MaxX(lettersUnion) - MinX(lettersUnion)
        fullZ == MaxZ(lettersUnion) - MinZ(lettersUnion)
        cx == Mid(MaxX(lettersUnion), MinX(lettersUnion))
        cz == Mid(MaxZ(lettersUnion), MinZ(lettersUnion))
        width == fullX + st.basePadding
        depth == fullZ + st.basePadding
        raw == {Box(0 - width \div 2, width \div 2,
                    0 - depth \div 2, depth \div 2, 0, st.baseHeight)}
        yOffset == st.embedDepth - st.baseHeight
    IN  Translate(RotateX90(raw), cx, yOffset, cz)

\* Lines 397-441: base synthesis; every failure inside (here: of the union
\* of line 400) is caught and logged and the run goes on without a base.
\* The letters union, the raw and the rotated plate are deleted, the
\* positioned plate stays in parts.
CreateBase ==
    /\ pc = "base"
    /\ IF settings.baseHeight > 0
         THEN \E ok \in BOOLEAN :
                /\ Fault(~ok)
                /\ parts' = IF ok
                              THEN Append(parts,
                                     [kind |-> "base", pos |-> length,
                                      solid |-> BaseSolid(parts, settings)])
                              ELSE parts
                /\ trace' = [trace EXCEPT
                               !.fault = IF ok THEN "none" ELSE "base"]
         ELSE /\ parts' = parts
              /\ trace' = [trace EXCEPT !.fault = "none"]
              /\ faults' = faults
    /\ live' = live + (Len(parts') - Len(parts))
    /\ pc' = "merge"
    /\ UNCHANGED <<others, loadVars, settings, length, i, currentXOffset,
                   config, m1, m2, resultManifold, endVars, error, log>>

\* A failure inside the try block of lines 444-508.
MergeFailed(step) ==
    /\ pc' = "failed"
    /\ error' = "FinalMergeFailed"
    /\ trace' = [trace EXCEPT !.fault = step]

\* Lines 445-449: the final union of all parts.
FinalUnion(ps) == UnionAll(Solids(ps))

\* (variant: the top of the component is compared)
KeptByMaxY(comps, threshold) == { c \in comps : MaxY(c) <= threshold }

\* Line 471: a component is kept when it reaches down to the threshold.
Kept(comps, threshold) == { c \in comps : MinY(c) <= threshold }

\* (variant: the comparison is inverted and the kept list is united
\* without looking at its length)
RemoveFloatingPartsInverted(final, baseHeight) ==
    IF baseHeight > 0 /\ Cardinality(Decompose(final)) > 1
      THEN UNION { c \in Decompose(final) : MinY(c) > MinY(final) + TouchTol }
      ELSE final

\* Lines 454-493: drop the components that do not reach the lowest point.
RemoveFloatingParts(final, baseHeight) ==
    IF baseHeight > 0
      THEN LET components == Decompose(final)
               count == Cardinality(components)
               threshold == MinY(final) + TouchTol
               kept == Kept(components, threshold)
           IN  IF count > 1
                 THEN IF Cardinality(kept) < count
                        THEN IF Cardinality(kept) > 0
                               THEN UNION kept
                               ELSE final
                        ELSE final
                 ELSE final
      ELSE final

\* Lines 498-503: the mesh is moved so that its bounding box is centred.
Centered(s) ==
    Translate(s, 0 - Mid(MinX(s), MaxX(s)), 0 - Mid(MinY(s), MaxY(s)),
              0 - Mid(MinZ(s), MaxZ(s)))

\* Handles left by lines 445-496 besides the parts, which are all deleted:
\* the united solid, the filtered solid and the components of a solid of
\* several components are deleted; the one component decompose returns for
\* a connected solid is not (the loop of lines 461-491 is skipped).
FilterHandles(final, baseHeight) ==
    IF baseHeight > 0 /\ Cardinality(Decompose(final)) <= 1
      THEN Cardinality(Decompose(final))
      ELSE 0

\* Lines 443-508: one try block unites the parts, filters the union,
\* converts it to a mesh, centres it and returns; a throw of the union
\* leaves nothing behind, a later throw leaves the united solid.
Finish ==
    /\ pc = "merge"
    /\ \E f \in {"none", "union", "filter"} :
         /\ Fault(f # "none")
         /\ finalManifold' = IF f = "union" THEN finalManifold
                              ELSE Manifold(FinalUnion(parts))
         /\ IF f = "none"
           THEN /\ cleanManifold' =
                     Manifold(RemoveFloatingParts(finalManifold'.boxes,
                                                  settings.baseHeight))
                /\ resultGeom' = Manifold(Centered(cleanManifold'.boxes))
                /\ pc' = "done"
                /\ live' = live - Len(parts)
                             + FilterHandles(finalManifold'.boxes,
                                             settings.baseHeight)
                /\ UNCHANGED <<error, trace>>
           ELSE MergeFailed(f)
                /\ UNCHANGED <<cleanManifold, resultGeom, live>>
    /\ UNCHANGED <<others, loadVars, settings, length, i, currentXOffset,
                   parts, config, m1, m2, resultManifold, log>>

Next ==
    \/ Start
    \/ FontSettles
    \/ KernelSettles
    \/ Resume
    \/ BeginPosition
    \/ PrepareChars
    \/ Combine
    \/ AutoBridge
    \/ Place
    \/ ManualBridge
    \/ Support
    \/ CheckParts
    \/ CreateBase
    \/ Finish

Spec == Init /\ [][Next]_vars

\* No run of generateDualTextGeometry has been started.
GenIdle ==
    /\ settings = CHOOSE st \in SettingsSet : st.fontUrl = ""
    /\ length = 0
    /\ pc = "idle"
    /\ i = 0
    /\ currentXOffset = 0
    /\ parts = << >>
    /\ config = IdleConfig
    /\ m1 = NULL /\ m2 = NULL /\ resultManifold = NULL
    /\ finalManifold = NULL /\ cleanManifold = NULL /\ resultGeom = NULL
    /\ error = "none"
    /\ trace = NoTrace
    /\ faults = 0
    /\ log = << >>
    /\ fontLoad = "idle" /\ kernelLoad = "idle"
    /\ live = 0

(* ---------------------- the auto-generation effect --------------------- *)
\* App is mounted with DEFAULT_SETTINGS (intersectionConfig: []); the effect
\* has run once and its timer is pending.  A render is the settings object
\* of a commit: whether it holds pair configurations, and when it was made.
\* A timer is the callback of one run of the effect: the render it closes
\* over, when it is due, how far it got, and what it wrote at its end.
Timer(version, due) ==
    [version |-> version, due |-> due, state |-> "pending",
     outcome |-> "none"]

InitApp ==
    /\ now = 0
    /\ renders = << [pairs |-> 0, at |-> 0] >>
    /\ timers = << Timer(1, Delay) >>
    /\ generateTimeoutRef = 1
    /\ generatedGeometry = 0
    /\ isGenerating = FALSE
    /\ appError = 0
    /\ GenIdle /\ BridgeIdle /\ CacheIdle /\ SyncIdle /\ LoopIdle /\ HandleIdle

\* (variant: clearTimeout leaves the timer alone)
ClearTimeoutNothing(ts, id) == ts

\* clearTimeout(id): a timer that has not fired yet never will; one that
\* has fired is not touched.
ClearTimeout(ts, id) ==
    [t \in 1..Len(ts) |->
       IF t = id /\ ts[t].state = "pending"
         THEN [ts[t] EXCEPT !.state = "cleared"] ELSE ts[t]]

\* setSettings with a new object: the cleanup of the last effect run (lines
\* 223-225) and the effect itself (lines 199-221) run for the new render.
SettingsChange ==
    /\ Len(renders) <= MaxChanges
    /\ \E p \in 0..1 :
         renders' = Append(renders, [pairs |-> p, at |-> now])
    /\ timers' = Append(ClearTimeout(ClearTimeout(timers, generateTimeoutRef),
                                     generateTimeoutRef),
                        Timer(Len(renders) + 1, now + Delay))
    /\ generateTimeoutRef' = Len(timers) + 1
    /\ UNCHANGED <<now, generatedGeometry, isGenerating, appError>>
    /\ UNCHANGED <<genVars, bridgeVars, cacheVars, syncVars, loopVars, handleVars>>

\* Time passes; a timer that is due fires before the clock moves on, and
\* so does the 50 ms pause of a run, which is shorter than one unit of time.
Tick ==
    /\ now < MaxTime
    /\ \A t \in 1..Len(timers) :
         /\ timers[t].state = "pending" => timers[t].due > now
         /\ timers[t].state # "sleeping"
    /\ now' = now + 1
    /\ UNCHANGED <<renders, timers, generateTimeoutRef, generatedGeometry,
                   isGenerating, appError>>
    /\ UNCHANGED <<genVars, bridgeVars, cacheVars, syncVars, loopVars, handleVars>>

\* Lines 203-207: the callback starts and waits 50 ms.
TimerFire(t) ==
    /\ timers[t].state = "pending"
    /\ timers[t].due <= now
    /\ timers' = [timers EXCEPT ![t].state = "sleeping"]
    /\ isGenerating' = TRUE
    /\ appError' = 0
    /\ UNCHANGED <<now, renders, generateTimeoutRef, generatedGeometry>>
    /\ UNCHANGED <<genVars, bridgeVars, cacheVars, syncVars, loopVars, handleVars>>

\* Lines 207-211, 218-220: after the pause the run calls the generator when
\* its settings hold a pair; without one it ends at once.
RunWakes(t) ==
    /\ timers[t].state = "sleeping"
    /\ IF renders[timers[t].version].pairs > 0
         THEN /\ timers' = [timers EXCEPT ![t].state = "generating"]
              /\ isGenerating' = isGenerating
         ELSE /\ timers' = [timers EXCEPT ![t].state = "done"]
              /\ isGenerating' = FALSE
    /\ UNCHANGED <<now, renders, generateTimeoutRef, generatedGeometry,
                   appError>>
    /\ UNCHANGED <<genVars, bridgeVars, cacheVars, syncVars, loopVars, handleVars>>

\* (variant: a failed run leaves the geometry on display)
RunSettlesKeepsGeometry(t) ==
    /\ timers[t].state = "generating"
    /\ \E ok \in BOOLEAN :
         IF ok
           THEN /\ generatedGeometry' = timers[t].version
                /\ appError' = appError
                /\ timers' = [timers EXCEPT ![t].state = "done",
                                            ![t].outcome = "geometry"]
           ELSE /\ appError' = timers[t].version
                /\ generatedGeometry' = generatedGeometry
                /\ timers' = [timers EXCEPT ![t].state = "done",
                                            ![t].outcome = "error"]
    /\ isGenerating' = FALSE
    /\ UNCHANGED <<now, renders, generateTimeoutRef>>
    /\ UNCHANGED <<genVars, bridgeVars, cacheVars, syncVars, loopVars, handleVars>>

\* Lines 211-220: generateDualTextGeometry settles; the geometry made of
\* the run's settings is stored, or the error is and the geometry cleared.
RunSettles(t) ==
    /\ timers[t].state = "generating"
    /\ \E ok \in BOOLEAN :
         IF ok
           THEN /\ generatedGeometry' = timers[t].version
                /\ appError' = appError
                /\ timers' = [timers EXCEPT ![t].state = "done",
                                            ![t].outcome = "geometry"]
           ELSE /\ appError' = timers[t].version
                /\ generatedGeometry' = 0
                /\ timers' = [timers EXCEPT ![t].state = "done",
                                            ![t].outcome = "error"]
    /\ isGenerating' = FALSE
    /\ UNCHANGED <<now, renders, generateTimeoutRef>>
    /\ UNCHANGED <<genVars, bridgeVars, cacheVars, syncVars, loopVars, handleVars>>

\* Lines 267-279: the Dismiss button of the error message.
Dismiss ==
    /\ appError # 0 /\ ~isGenerating
    /\ appError' = 0
    /\ UNCHANGED <<now, renders, timers, generateTimeoutRef,
                   generatedGeometry, isGenerating>>
    /\ UNCHANGED <<genVars, bridgeVars, cacheVars, syncVars, loopVars, handleVars>>

FireSome == \E t \in 1..Len(timers) : TimerFire(t)
WakeSome == \E t \in 1..Len(timers) : RunWakes(t)
SettleSome == \E t \in 1..Len(timers) : RunSettles(t)

NextApp ==
    \/ SettingsChange
    \/ Tick
    \/ FireSome
    \/ WakeSome
    \/ SettleSome
    \/ Dismiss

SpecApp == InitApp /\ [][NextApp]_vars

\* The 50 ms pause ends and the promise of the generator settles.
SpecAppFair ==
    SpecApp /\ WF_vars(FireSome) /\ WF_vars(WakeSome) /\ WF_vars(SettleSome)

Pending == { t \in 1..Len(timers) : timers[t].state = "pending" }
Started(t) == timers[t].state \in {"sleeping", "generating", "done"}
Spacing(v) == renders[v + 1].at - renders[v].at

\* C11: at most one timer is pending, and it is the one of the last change
\* (every change cleared the pending timer and scheduled its own); a change
\* followed by another one less than the delay later never starts a run,
\* and the last change of such a burst starts its run, with its own
\* settings, once the delay has passed.
C11_Debounce ==
    /\ Cardinality(Pending) <= 1
    /\ \A t \in Pending :
         t = generateTimeoutRef /\ timers[t].version = Len(renders)
    /\ Len(timers) = Len(renders)
    /\ \A v \in 1..Len(renders) :
         /\ timers[v].version = v
         /\ timers[v].due = renders[v].at + Delay
         /\ (v < Len(renders) /\ Spacing(v) < Delay) =>
               timers[v].state = "cleared"
         /\ (now > timers[v].due
               /\ (v = Len(renders) \/ Spacing(v) > Delay)) => Started(v)
    /\ generatedGeometry # 0 => timers[generatedGeometry].outcome = "geometry"

C11_Witness ==
    /\ Len(renders) = 4
    /\ \A v \in 1..3 : Spacing(v) < Delay /\ timers[v].state = "cleared"
    /\ renders[4].at > 0
    /\ timers[4].state = "done" /\ generatedGeometry = 4

\* C12 (as claimed): every run that has ended wrote a geometry, or an
\* error with the geometry cleared.
C12_EveryRunWritesOutcome ==
    \A t \in 1..Len(timers) :
        timers[t].state = "done" => timers[t].outcome \in {"geometry", "error"}

MaxTimers == MaxChanges + 1

\* C12 (amended): a run whose timer has fired is never cancelled, neither
\* by a later change nor by the cleanup, and does end; when its settings
\* hold at least one pair it ends storing its geometry or storing its error
\* and clearing the geometry, with an empty intersectionConfig it ends
\* leaving geometry and error as they are.
C12_FiredRunCompletes ==
    /\ [][\A t \in 1..Len(timers) :
            /\ Started(t) =>
                 /\ Started(t)'
                 /\ timers'[t].version = timers[t].version
                 /\ timers[t].state = "done" => timers'[t] = timers[t]
            /\ (timers[t].state # "done" /\ timers'[t].state = "done") =>
                 /\ isGenerating' = FALSE
                 /\ IF renders[timers[t].version].pairs > 0
                      THEN \/ /\ generatedGeometry' = timers[t].version
                              /\ appError' = appError
                              /\ timers'[t].outcome = "geometry"
                           \/ /\ appError' = timers[t].version
                              /\ generatedGeometry' = 0
                              /\ timers'[t].outcome = "error"
                      ELSE /\ generatedGeometry' = generatedGeometry
                           /\ appError' = appError
                           /\ timers'[t].outcome = "none"]_vars
    /\ \A t \in 1..MaxTimers :
         (t <= Len(timers) /\ Started(t))
            ~> (t <= Len(timers) /\ timers[t].state = "done")

C12_Witness ==
    \E t \in 1..Len(timers) :
        /\ timers[t].state = "done" /\ timers[t].outcome = "error"
        /\ t < Len(renders) /\ appError = t /\ generatedGeometry = 0
        /\ \E u \in 1..(t - 1) : timers[u].outcome = "geometry"

(* --------------------------- the sync effect -------------------------- *)
\* A text is a JavaScript string: a sequence of UTF-16 code units, "H" and
\* "L" standing for the two halves of a surrogate pair.
Texts == {<< >>, <<"A", "A">>, <<"H", "L">>, <<"A", "H", "L">>}

\* [...text]: the string iterator yields code points, a surrogate pair as
\* one element.
RECURSIVE CodePoints(_)
CodePoints(u) ==
    IF u = << >> THEN << >>
    ELSE IF Len(u) >= 2 /\ u[1] = "H" /\ u[2] = "L"
           THEN <<"HL">> \o CodePoints(SubSeq(u, 3, Len(u)))
           ELSE <<u[1]>> \o CodePoints(Tail(u))

\* t1Chars[i] || ''
CharAt(chars, k) == IF k <= Len(chars) THEN chars[k] ELSE ""

Max(a, b) == IF a > b THEN a ELSE b

DefaultTransform == [scaleX |-> 1, scaleY |-> 1, moveX |-> 0, moveZ |-> 0]

\* Lines 117-143: a new pair configuration.
NewEntry(id, c1, c2, sd) ==
    [id |-> id, char1 |-> c1, char2 |-> c2, isOverridden |-> FALSE,
     transform |-> DefaultTransform, support |-> sd, bridge |-> DefaultBridge]

\* (variant: the sync resets the overrides of every entry)
SyncEntryDropsOverride(conf, c1, c2, sd) ==
    [conf EXCEPT !.char1 = c1, !.char2 = c2, !.isOverridden = FALSE,
                 !.transform = DefaultTransform, !.support = sd]

\* Lines 151-182: the characters of an entry are refreshed, and its support
\* follows the global one unless the entry is overridden.
SyncEntry(conf, c1, c2, sd) ==
    [conf EXCEPT !.char1 = c1, !.char2 = c2,
                 !.support = IF conf.isOverridden THEN @ ELSE sd]

\* Lines 107-182: the configuration list for the texts t1 and t2; new
\* entries take the ids after nextId.
Synced(ic, t1, t2, sd, nextId) ==
    LET t1Chars == CodePoints(t1)
        t2Chars == CodePoints(t2)
        len == Max(Len(t1Chars), Len(t2Chars))
        newConfig == [k \in 1..len |->
                        IF k <= Len(ic) THEN ic[k]
                        ELSE NewEntry(nextId + (k - Len(ic)),
                                      CharAt(t1Chars, k), CharAt(t2Chars, k),
                                      sd)]
    IN  [k \in 1..len |->
           SyncEntry(newConfig[k], CharAt(t1Chars, k), CharAt(t2Chars, k), sd)]

\* App is mounted: the texts are set, the list is empty and the effect is
\* about to run for the first time.
InitSync ==
    /\ text1 = <<"A", "A">>
    /\ text2 = <<"H", "L">>
    /\ intersectionConfig = << >>
    /\ supportDefaults = [enabled |-> FALSE, type |-> "CYLINDER",
                          height |-> 2500, width |-> 1500]
    /\ syncPending = TRUE
    /\ ids = 0
    /\ selectedIdx = 0
    /\ GenIdle /\ BridgeIdle /\ AppIdle /\ CacheIdle /\ LoopIdle /\ HandleIdle

\* Ids the effect would draw for these texts.
Needed(t1, t2) ==
    Max(0, Max(Len(CodePoints(t1)), Len(CodePoints(t2)))
             - Len(intersectionConfig))

\* AdvancedControls, lines 96-106: with a pair selected the editor reads
\* configArray[selectedIdx].char1 while it renders; on a missing entry
\* that throws and React takes the whole tree down.
EditorRenders == selectedIdx <= Len(intersectionConfig)

\* Controls, handleChange('text1', value).
SetText1 ==
    /\ ~syncPending /\ EditorRenders
    /\ \E t \in Texts :
         /\ ids + Needed(t, text2) <= MaxIds
         /\ text1' = t
    /\ syncPending' = TRUE
    /\ UNCHANGED <<text2, intersectionConfig, supportDefaults, ids, selectedIdx>>
    /\ UNCHANGED <<genVars, bridgeVars, appVars, cacheVars, loopVars, handleVars>>

\* Controls, handleChange('text2', value).
SetText2 ==
    /\ ~syncPending /\ EditorRenders
    /\ \E t \in Texts :
         /\ ids + Needed(text1, t) <= MaxIds
         /\ text2' = t
    /\ syncPending' = TRUE
    /\ UNCHANGED <<text1, intersectionConfig, supportDefaults, ids, selectedIdx>>
    /\ UNCHANGED <<genVars, bridgeVars, appVars, cacheVars, loopVars, handleVars>>

\* Controls, handleChange('supportEnabled', checked).
SetSupport ==
    /\ ~syncPending /\ EditorRenders
    /\ supportDefaults' = [supportDefaults EXCEPT !.enabled = ~@]
    /\ syncPending' = TRUE
    /\ UNCHANGED <<text1, text2, intersectionConfig, ids, selectedIdx>>
    /\ UNCHANGED <<genVars, bridgeVars, appVars, cacheVars, loopVars, handleVars>>

\* AdvancedControls, lines 75-92: a click on one of the listed pairs.
SelectPair ==
    /\ ~syncPending /\ EditorRenders
    /\ \E idx \in 1..Len(intersectionConfig) : selectedIdx' = idx
    /\ UNCHANGED <<text1, text2, intersectionConfig, supportDefaults,
                   syncPending, ids>>
    /\ UNCHANGED <<genVars, bridgeVars, appVars, cacheVars, loopVars, handleVars>>

\* App, lines 244-249: the advanced panel is closed; AdvancedControls is
\* unmounted and its selection is gone when it is opened again.
CloseAdvanced ==
    /\ ~syncPending /\ EditorRenders
    /\ selectedIdx # 0
    /\ selectedIdx' = 0
    /\ UNCHANGED <<text1, text2, intersectionConfig, supportDefaults,
                   syncPending, ids>>
    /\ UNCHANGED <<genVars, bridgeVars, appVars, cacheVars, loopVars, handleVars>>

\* The partial updates the editor of a pair sends.
Changes ==
    { [transform |-> [moveX |-> 4000]],
      [bridge |-> [auto |-> FALSE]],
      [support |-> [enabled |-> TRUE, height |-> 3000]] }

\* (variant: the nested object is replaced by the changes)
MergeTakesChanges(current, changes) == changes

\* { ...current, ...changes } on one of the nested objects.
Merge(current, changes) ==
    [k \in DOMAIN current |->
       IF k \in DOMAIN changes THEN changes[k] ELSE current[k]]

Part(current, changes, field) ==
    IF field \in DOMAIN changes THEN Merge(current[field], changes[field])
    ELSE current[field]

\* AdvancedControls, lines 15-33: updateConfig(index, updates).
UpdateConfig ==
    /\ ~syncPending /\ EditorRenders
    /\ selectedIdx # 0
    /\ \E changes \in Changes :
         LET index == selectedIdx
             current == intersectionConfig[index]
         IN  intersectionConfig' =
               [intersectionConfig EXCEPT
                  ![index] = [current EXCEPT
                                !.transform = Part(current, changes, "transform"),
                                !.support = Part(current, changes, "support"),
                                !.bridge = Part(current, changes, "bridge"),
                                !.isOverridden = TRUE]]
    /\ UNCHANGED <<text1, text2, supportDefaults, syncPending, ids, selectedIdx>>
    /\ UNCHANGED <<genVars, bridgeVars, appVars, cacheVars, loopVars, handleVars>>

\* (variant: the reset leaves the support of the entry as it is)
ResetConfigKeepsSupport ==
    /\ ~syncPending /\ EditorRenders
    /\ selectedIdx # 0
    /\ LET index == selectedIdx
       IN
         intersectionConfig' =
           [intersectionConfig EXCEPT
              ![index] = [@ EXCEPT !.isOverridden = FALSE,
                                   !.transform = DefaultTransform,
                                   !.bridge = DefaultBridge]]
    /\ UNCHANGED <<text1, text2, supportDefaults, syncPending, ids, selectedIdx>>
    /\ UNCHANGED <<genVars, bridgeVars, appVars, cacheVars, loopVars, handleVars>>

\* AdvancedControls, lines 35-58: resetConfig(index).
ResetConfig ==
    /\ ~syncPending /\ EditorRenders
    /\ selectedIdx # 0
    /\ LET index == selectedIdx
       IN
         intersectionConfig' =
           [intersectionConfig EXCEPT
              ![index] = [@ EXCEPT !.isOverridden = FALSE,
                                   !.transform = DefaultTransform,
                                   !.support = supportDefaults,
                                   !.bridge = DefaultBridge]]
    /\ UNCHANGED <<text1, text2, supportDefaults, syncPending, ids, selectedIdx>>
    /\ UNCHANGED <<genVars, bridgeVars, appVars, cacheVars, loopVars, handleVars>>

\* App, lines 105-194: the effect runs for the change of a text or of a
\* global support setting.
SyncEffect ==
    /\ syncPending
    /\ intersectionConfig' =
         Synced(intersectionConfig, text1, text2, supportDefaults, ids)
    /\ ids' = ids + Needed(text1, text2)
    /\ syncPending' = FALSE
    /\ UNCHANGED <<text1, text2, supportDefaults, selectedIdx>>
    /\ UNCHANGED <<genVars, bridgeVars, appVars, cacheVars, loopVars, handleVars>>

NextSync ==
    \/ SetText1
    \/ SetText2
    \/ SetSupport
    \/ SelectPair
    \/ CloseAdvanced
    \/ UpdateConfig
    \/ ResetConfig
    \/ SyncEffect

SpecSync == InitSync /\ [][NextSync]_vars

\* Length of a text in code points: its code units less one for every
\* surrogate pair.
CodePointCount(u) ==
    Len(u) - Cardinality({ k \in 1..(Len(u) - 1) : u[k] = "H" /\ u[k + 1] = "L" })

\* C16: a run of the sync effect leaves max(len(text1), len(text2))
\* entries, lengths in code points; entry i carries the i-th code point of
\* each text, or '' past its end; every index that existed before keeps
\* its id, isOverridden, transform and bridge; entries are added and
\* removed at the end only, new ones with new ids.
C16_SyncKeepsOverrides ==
    [][(syncPending /\ ~syncPending') =>
         LET old == intersectionConfig
             new == intersectionConfig'
             len == Max(CodePointCount(text1), CodePointCount(text2))
         IN  /\ Len(new) = len
             /\ \A k \in 1..len :
                  /\ new[k].char1 = CharAt(CodePoints(text1), k)
                  /\ new[k].char2 = CharAt(CodePoints(text2), k)
                  /\ k <= CodePointCount(text1) <=> new[k].char1 # ""
                  /\ k <= CodePointCount(text2) <=> new[k].char2 # ""
                  /\ k <= Len(old) =>
                       /\ new[k].id = old[k].id
                       /\ new[k].isOverridden = old[k].isOverridden
                       /\ new[k].transform = old[k].transform
                       /\ new[k].bridge = old[k].bridge
                  /\ k > Len(old) =>
                       \A j \in 1..Len(old) : new[k].id # old[j].id]_vars

C16_Witness ==
    /\ ~syncPending
    /\ text1 = <<"H", "L">> /\ text2 = <<"A", "A">>
    /\ Len(intersectionConfig) = 2
    /\ intersectionConfig[1].id = 1
    /\ intersectionConfig[1].isOverridden
    /\ intersectionConfig[1].transform.moveX = 4000
    /\ intersectionConfig[1].char1 = "HL"
    /\ intersectionConfig[2].char1 = ""
    /\ intersectionConfig[2].id > 2

Min(a, b) == IF a < b THEN a ELSE b

\* C22: once the sync effect has run, and after every edit or reset that
\* follows, each entry that is not overridden carries the global support
\* settings; neither a change of a global setting or a text nor the sync
\* touches the support of an overridden entry.
C22_SupportFollowsGlobalUnlessOverridden ==
    [][/\ ~syncPending' =>
            \A k \in 1..Len(intersectionConfig') :
                ~intersectionConfig'[k].isOverridden =>
                    intersectionConfig'[k].support = supportDefaults'
       /\ syncPending' # syncPending =>
            \A k \in 1..Min(Len(intersectionConfig),
                             Len(intersectionConfig')) :
                intersectionConfig[k].isOverridden =>
                    /\ intersectionConfig'[k].isOverridden
                    /\ intersectionConfig'[k].support
                         = intersectionConfig[k].support]_vars

C22_Witness ==
    /\ ~syncPending
    /\ Len(intersectionConfig) = 2
    /\ supportDefaults.enabled
    /\ intersectionConfig[1].isOverridden
    /\ ~intersectionConfig[1].support.enabled
    /\ ~intersectionConfig[2].isOverridden
    /\ intersectionConfig[2].support = supportDefaults
    /\ intersectionConfig[2].id = 2

\* What one nested object of an entry must be after the changes ch.
Merged(conf, ch, f) ==
    [key \in DOMAIN conf[f] |->
       IF f \in DOMAIN ch /\ key \in DOMAIN ch[f] THEN ch[f][key]
       ELSE conf[f][key]]

\* C23: updateConfig(i, changes) and resetConfig(i) change entry i only,
\* never a global setting and never the length of the list.  After
\* updateConfig the entry is overridden and its transform, support and bridge
\* are the old ones with the changed fields merged in; after resetConfig it is
\* not overridden, its transform is the identity, its support is the current
\* global one and its bridge the default automatic one, and id, char1 and
\* char2 are kept.
C23_EditTouchesOneEntry ==
    [][(~syncPending /\ ~syncPending' /\ intersectionConfig' # intersectionConfig) =>
          LET index == selectedIdx
              old == intersectionConfig[index]
          IN  /\ Len(intersectionConfig') = Len(intersectionConfig)
              /\ \A k \in 1..Len(intersectionConfig) :
                     k # index => intersectionConfig'[k] = intersectionConfig[k]
              /\ text1' = text1 /\ text2' = text2
              /\ supportDefaults' = supportDefaults
              /\ \/ \E ch \in Changes :
                       intersectionConfig'[index] =
                         [old EXCEPT !.isOverridden = TRUE,
                                     !.transform = Merged(old, ch, "transform"),
                                     !.support = Merged(old, ch, "support"),
                                     !.bridge = Merged(old, ch, "bridge")]
                 \/ intersectionConfig'[index] =
                       [id |-> old.id, char1 |-> old.char1, char2 |-> old.char2,
                        isOverridden |-> FALSE,
                        transform |-> [scaleX |-> 1, scaleY |-> 1,
                                       moveX |-> 0, moveZ |-> 0],
                        support |-> supportDefaults,
                        bridge |-> DefaultBridge]]_vars

\* An entry that was edited twice beside one that was edited and then reset
\* under a changed global support.
C23_Witness ==
    /\ ~syncPending /\ Len(intersectionConfig) = 2 /\ selectedIdx = 1
    /\ intersectionConfig[2].isOverridden
    /\ intersectionConfig[2].transform.moveX = 4000
    /\ intersectionConfig[2].transform.scaleX = 1
    /\ ~intersectionConfig[2].bridge.auto /\ intersectionConfig[2].bridge.enabled
    /\ ~intersectionConfig[1].isOverridden
    /\ intersectionConfig[1].support.enabled

\* C29 (as claimed): whenever the editor pane is rendered the selected
\* index is below intersectionConfig.length.
C29_SelectionInRange ==
    selectedIdx # 0 => selectedIdx <= Len(intersectionConfig)

InFlight == { t \in 1..Len(timers) : timers[t].state \in {"sleeping", "generating"} }

\* C26 (as claimed): with no timer pending and no run in flight, the
\* geometry or the error on display is the outcome of the run of the latest
\* settings; no older run has written over it.
C26_LatestOutcomeShown ==
    (timers # << >> /\ Pending = {} /\ InFlight = {}) =>
        LET latest == timers[Len(timers)]
        IN  /\ latest.outcome = "geometry" =>
                 generatedGeometry = latest.version
            /\ latest.outcome = "error" =>
                 generatedGeometry = 0 /\ appError \in {0, latest.version}

\* C27 (as claimed): isGenerating is true as long as a run is in flight,
\* from the firing of its timer to its finally block, two overlapping runs
\* included.
C27_GeneratingWhileInFlight ==
    InFlight # {} => isGenerating

(* ------------------- outlines: shapesToManifold -------------------- *)
\* Coordinates of outline points are in units of 0.0001.
\* Line 19: segments of squared length up to 0.000001 are removed.
MinSegmentSq == 100
\* Lines 57 and 70: the last point duplicates the first below 0.0001.
ClosingTol == 1

\* Points that an outline is drawn from: three of them less than 0.001
\* apart on one line, the others the corners of a square.
LoopPoints ==
    { <<0, 0>>, <<8, 0>>, <<16, 0>>, <<10000, 0>>, <<10000, 10000>>,
      <<0, 10000>> }

RECURSIVE Loops(_)
Loops(n) ==
    IF n = 0 THEN { << >> }
    ELSE LET shorter == Loops(n - 1)
         IN  shorter \cup { Append(l, pt) : l \in { x \in shorter : Len(x) = n - 1 },
                                            pt \in LoopPoints }

Abs(x) == IF x < 0 THEN 0 - x ELSE x

DistSq(a, b) == (a[1] - b[1]) * (a[1] - b[1]) + (a[2] - b[2]) * (a[2] - b[2])

\* Lines 14-23: the loop of cleanPoints from index k on, last being the
\* point kept last.
RECURSIVE CleanFrom(_, _, _)
CleanFrom(points, k, last) ==
    IF k > Len(points) THEN << >>
    ELSE IF DistSq(points[k], last) > MinSegmentSq
           THEN <<points[k]>> \o CleanFrom(points, k + 1, points[k])
           ELSE CleanFrom(points, k + 1, last)

\* Lines 8-26.
cleanPoints(points) ==
    IF Len(points) < 3 THEN << >>
    ELSE LET result == CleanFrom(points, 1, points[Len(points)])
         IN  IF Len(result) >= 3 THEN result ELSE << >>

\* Lines 30-35: the sum over the edges of the loop, the closing one included.
RECURSIVE EdgeSum(_, _)
EdgeSum(points, k) ==
    IF k > Len(points) THEN 0
    ELSE LET p1 == points[k]
             p2 == points[(k % Len(points)) + 1]
         IN  (p2[1] - p1[1]) * (p2[2] + p1[2]) + EdgeSum(points, k + 1)

\* Lines 29-37.
isCCW(points) == EdgeSum(points, 1) < 0

\* Array.prototype.reverse.
Reverse(points) ==
    [k \in 1..Len(points) |-> points[Len(points) + 1 - k]]

\* (variant: the loop is never reversed)
processPointsKeeps(points, desiredCCW) == points

\* Lines 39-45.
processPoints(points, desiredCCW) ==
    IF isCCW(points) # desiredCCW THEN Reverse(points) ELSE points

\* An outline of a shape (outer) or one of its holes, as getPoints returns it.
InitLoops ==
    /\ \E raw \in Loops(MaxPoints), outer \in BOOLEAN :
         loopRun = [pc |-> "points", outer |-> outer, points |-> raw,
                    cleaned |-> << >>, loop |-> << >>]
    /\ GenIdle /\ BridgeIdle /\ AppIdle /\ CacheIdle /\ SyncIdle /\ HandleIdle

\* Lines 54-60 and 67-73: a last point that repeats the first is popped.
PopClosing ==
    /\ loopRun.pc = "points"
    /\ LET points == loopRun.points
           n == Len(points)
       IN  loopRun' =
             [loopRun EXCEPT
                !.pc = "popped",
                !.points = IF /\ n > 0
                              /\ Abs(points[1][1] - points[n][1]) < ClosingTol
                              /\ Abs(points[1][2] - points[n][2]) < ClosingTol
                             THEN SubSeq(points, 1, n - 1)
                             ELSE points]
    /\ UNCHANGED <<genVars, bridgeVars, appVars, cacheVars, syncVars, handleVars>>

\* Lines 61 and 74.
CleanLoop ==
    /\ loopRun.pc = "popped"
    /\ loopRun' = [loopRun EXCEPT !.pc = "cleaned",
                                  !.cleaned = cleanPoints(loopRun.points)]
    /\ UNCHANGED <<genVars, bridgeVars, appVars, cacheVars, syncVars, handleVars>>

\* Lines 62-64 and 75-77: a loop of three points or more is oriented and
\* pushed, any other is left out.
PushLoop ==
    /\ loopRun.pc = "cleaned"
    /\ IF Len(loopRun.cleaned) >= 3
         THEN loopRun' = [loopRun EXCEPT
                            !.pc = "pushed",
                            !.loop = processPoints(loopRun.cleaned, loopRun.outer)]
         ELSE loopRun' = [loopRun EXCEPT !.pc = "skipped"]
    /\ UNCHANGED <<genVars, bridgeVars, appVars, cacheVars, syncVars, handleVars>>

NextLoops == PopClosing \/ CleanLoop \/ PushLoop

SpecLoops == InitLoops /\ [][NextLoops]_vars

\* seq is points with some of its elements left out, the order kept.
RECURSIVE IsSubsequence(_, _)
IsSubsequence(seq, points) ==
    IF seq = << >> THEN TRUE
    ELSE IF points = << >> THEN FALSE
    ELSE IF Head(seq) = Head(points)
           THEN IsSubsequence(Tail(seq), Tail(points))
                  \/ IsSubsequence(seq, Tail(points))
           ELSE IsSubsequence(seq, Tail(points))

\* C24 (as claimed): cleanPoints returns the empty loop or at least three
\* points that are a subsequence of its input in the same order, and in a
\* loop that is not empty no point lies within the removal threshold of the
\* next one, the closing segment from the last point to the first included.
C24_CleanedLoopHasNoShortSegment ==
    loopRun.pc \in {"cleaned", "pushed", "skipped"} =>
        LET cleaned == loopRun.cleaned
        IN  \/ cleaned = << >>
            \/ /\ Len(cleaned) >= 3
               /\ IsSubsequence(cleaned, loopRun.points)
               /\ \A k \in 1..Len(cleaned) :
                     DistSq(cleaned[k], cleaned[(k % Len(cleaned)) + 1])
                       > MinSegmentSq

\* C25 (as claimed): every loop pushed is counter-clockwise by isCCW when it
\* is an outer loop and not when it is a hole; it is the cleaned loop or its
\* reverse, and processPoints applied to it again leaves it as it is.
C25_EveryLoopOriented ==
    loopRun.pc = "pushed" =>
        /\ isCCW(loopRun.loop) = loopRun.outer
        /\ loopRun.loop \in {loopRun.cleaned, Reverse(loopRun.cleaned)}
        /\ processPoints(loopRun.loop, loopRun.outer) = loopRun.loop

\* C25: a pushed loop whose edge sum is not zero is counter-clockwise by
\* isCCW when it is an outer loop and not when it is a hole, and processPoints
\* applied to it again leaves it as it is; a loop whose edge sum is zero is
\* not counter-clockwise in either direction, is reversed when it is an outer
\* loop and kept when it is a hole.  In every case the pushed loop is the
\* cleaned loop or its reverse.
C25_LoopWithAreaOriented ==
    loopRun.pc = "pushed" =>
        /\ loopRun.loop \in {loopRun.cleaned, Reverse(loopRun.cleaned)}
        /\ IF EdgeSum(loopRun.cleaned, 1) # 0
             THEN /\ isCCW(loopRun.loop) = loopRun.outer
                  /\ processPoints(loopRun.loop, loopRun.outer) = loopRun.loop
             ELSE /\ ~isCCW(loopRun.loop)
                  /\ loopRun.loop = IF loopRun.outer THEN Reverse(loopRun.cleaned)
                                    ELSE loopRun.cleaned

\* An outer loop that came in clockwise and a hole that came in
\* counter-clockwise were both turned round.
C25_Witness ==
    /\ loopRun.pc = "pushed"
    /\ EdgeSum(loopRun.cleaned, 1) # 0
    /\ isCCW(loopRun.cleaned) # loopRun.outer
    /\ loopRun.loop = Reverse(loopRun.cleaned)
    /\ loopRun.loop # loopRun.cleaned
    /\ Len(loopRun.loop) = 4

(* --------------- kernel handles of one generation run ---------------- *)
\* Every solid the kernel returns is a handle of its own (a new object of the
\* wasm binding) that lives until delete() is called on it.  The run is
\* followed here by its handles only: which variable refers to which handle,
\* which handles were deleted, and what the code did with a deleted one.
\* Sizes and positions are left open: every branch of the code is taken.
HandleNames ==
    {"raw", "centered", "m1", "m2", "resultManifold", "united", "connector",
     "transformed", "finalPos", "bridge", "rotated", "positionedBridge",
     "supportGeom", "positioned", "lettersUnion", "baseManifoldRaw",
     "baseRotated", "baseFinal", "finalManifold", "cleanManifold"}

\* No variable refers to a handle, no handle exists.
NoHandles ==
    [ids |-> [n \in HandleNames |-> 0], st |-> << >>, parts |-> << >>,
     misuse |-> {}]

\* name = <a kernel call that returns a solid>
HNew(hs, name) ==
    [hs EXCEPT !.st = Append(@, "live"), !.ids[name] = Len(hs.st) + 1]

\* A method is called on the handle, or the handle is handed to the kernel.
HUseId(hs, id, site) ==
    IF id # 0 /\ hs.st[id] = "released"
      THEN [hs EXCEPT !.misuse = @ \cup {<<"used after release", site>>}]
      ELSE hs

HUse(hs, name, site) == HUseId(hs, hs.ids[name], site)

\* handle.delete()
HDelId(hs, id, site) ==
    IF hs.st[id] = "released"
      THEN [hs EXCEPT !.misuse = @ \cup {<<"released twice", site>>}]
      ELSE [hs EXCEPT !.st[id] = "released"]

HDel(hs, name, site) == HDelId(hs, hs.ids[name], site)

RECURSIVE HUseIds(_, _, _)
HUseIds(hs, idseq, site) ==
    IF idseq = << >> THEN hs
    ELSE HUseIds(HUseId(hs, Head(idseq), site), Tail(idseq), site)

RECURSIVE HDelIds(_, _, _)
HDelIds(hs, idseq, site) ==
    IF idseq = << >> THEN hs
    ELSE HDelIds(HDelId(hs, Head(idseq), site), Tail(idseq), site)

\* n new handles in a row (the components that decompose returns); their
\* ids are Len(hs.st) + 1 .. Len(hs.st) + n.
RECURSIVE HNewMany(_, _)
HNewMany(hs, n) ==
    IF n = 0 THEN hs
    ELSE HNewMany([hs EXCEPT !.st = Append(@, "live")], n - 1)

IdsFrom(first, n) == [k \in 1..n |-> first + k - 1]

\* parts.push(name)
HPush(hs, name) == [hs EXCEPT !.parts = Append(@, hs.ids[name])]

\* to = from
HAlias(hs, to, from) == [hs EXCEPT !.ids[to] = hs.ids[from]]

\* name = null
HNull(hs, name) == [hs EXCEPT !.ids[name] = 0]

\* (variant: the letter is taken over but m1 / m2 still refers to it)
TakeOverKeepsName(hs, from) == HAlias(hs, "resultManifold", from)

\* Lines 308-314: resultManifold = m1; m1 = null (or m2).
TakeOver(hs, from) == HNull(HAlias(hs, "resultManifold", from), from)

\* Line 391: the body of the loop ends, its variables are gone; only the
\* handles in parts can still be reached.
EndOfBody(hs) ==
    [ids |-> [n \in HandleNames |-> 0],
     st |-> [k \in 1..Len(hs.parts) |-> hs.st[hs.parts[k]]],
     parts |-> [k \in 1..Len(hs.parts) |-> k],
     misuse |-> hs.misuse]

PrepOutcomes == {"none", "made", "throws at translate", "throws at rotate"}
Throws(o) == o \in {"throws at translate", "throws at rotate", "throws",
                    "throws at boundingBox", "throws at union"}

\* Lines 262-275 (m1) and 277-290 (m2).
PrepChar(hs, m, o) ==
    IF o = "none" THEN hs
    ELSE LET made == HUse(HNew(hs, "raw"), "raw", 265)
         IN  IF o = "throws at translate" THEN HUse(made, "raw", 269)
             ELSE LET moved == HNew(HUse(made, "raw", 269), "centered")
                  IN  IF o = "throws at rotate" THEN HUse(moved, "centered", 270)
                      ELSE HDel(HDel(HNew(HUse(moved, "centered", 270), m),
                                     "raw", 271),
                                "centered", 272)

CombineOutcomes == {"made", "degenerate", "throws", "throws at boundingBox"}

\* Lines 293-317.
CombineChars(hs, o) ==
    LET both == hs.ids["m1"] # 0 /\ hs.ids["m2"] # 0
        met == HNew(HUse(HUse(hs, "m1", 295), "m2", 295), "resultManifold")
        res == IF both
                 THEN CASE o = "made" -> HUse(met, "resultManifold", 297)
                        [] o = "degenerate" ->
                             HNull(HDel(HUse(met, "resultManifold", 297),
                                        "resultManifold", 299),
                                   "resultManifold")
                        [] o = "throws" -> HUse(HUse(hs, "m1", 295), "m2", 295)
                        [] OTHER -> HNull(met, "resultManifold")
               ELSE IF hs.ids["m1"] # 0 THEN TakeOver(hs, "m1")
               ELSE IF hs.ids["m2"] # 0 THEN TakeOver(hs, "m2")
               ELSE hs
        d1 == IF res.ids["m1"] # 0 THEN HDel(res, "m1", 316) ELSE res
    IN  IF d1.ids["m2"] # 0 THEN HDel(d1, "m2", 317) ELSE d1

\* Lines 185-190: cylinder, rotate and translate each return a new handle
\* that connector then refers to.
ConnectorHandles(hs) ==
    LET c1 == HNew(hs, "connector")
        c2 == HNew(HUse(c1, "connector", 187), "connector")
    IN  HNew(HUse(c2, "connector", 188), "connector")

\* Lines 156-192: the pairs of made get a connector each; the ids of the
\* connectors pushed to bridgeGeoms are returned with the handles.
RECURSIVE Connectors(_, _, _)
Connectors(hs, k, geoms) ==
    IF k = 0 THEN [hs |-> hs, geoms |-> geoms]
    ELSE LET c == ConnectorHandles(hs)
         IN  Connectors(c, k - 1, Append(geoms, c.ids["connector"]))

\* Lines 131-206: applyAutoBridge(resultManifold, m) with count components
\* and made connectors.  With unionThrows the exception leaves the function.
AutoBridgeHandles(hs, count, made, unionThrows) ==
    LET h0 == HUse(hs, "resultManifold", 132)
        first == Len(h0.st) + 1
        comps == IdsFrom(first, count)
        h1 == HUseIds(HNewMany(h0, count), comps, 149)
    IN  IF count <= 1 THEN HNewMany(h0, count)
        ELSE LET c == Connectors(HUseIds(h1, comps, 160), made, << >>)
                 toUnion == comps \o c.geoms
                 h2 == HUseIds(c.hs, toUnion, 197)
             IN  IF unionThrows THEN h2
                 ELSE LET h3 == HNew(h2, "united")
                          h4 == HDel(h3, "resultManifold", 202)
                          h5 == HDelIds(h4, toUnion, 203)
                      IN  HAlias(h5, "resultManifold", "united")

\* Lines 325-339: the letter is measured, scaled, moved and pushed.
PlaceHandles(hs) ==
    LET t == HNew(HUse(hs, "resultManifold", 337), "transformed")
    IN  HPush(HNew(HUse(t, "transformed", 338), "finalPos"), "finalPos")

\* Lines 343-360: the manual bridge.
ManualBridgeOutcomes == {"made", "throws", "throws at rotate", "throws at translate"}

ManualBridgeHandles(hs, rotates, o) ==
    IF o = "throws" THEN hs
    ELSE LET b == HNew(hs, "bridge")
             r == IF rotates
                    THEN HAlias(HDel(HNew(HUse(b, "bridge", 349), "rotated"),
                                     "bridge", 350),
                                "bridge", "rotated")
                    ELSE b
         IN  IF o = "throws at rotate" THEN HUse(b, "bridge", 349)
             ELSE IF o = "throws at translate" THEN HUse(r, "bridge", 354)
             ELSE HDel(HPush(HNew(HUse(r, "bridge", 354), "positionedBridge"),
                             "positionedBridge"),
                       "bridge", 356)

\* Lines 363-377: the support pillar, when createSupportPrimitive
\* returned one.
SupportHandles(hs) ==
    LET s == HNew(hs, "supportGeom")
        r == HNew(HUse(s, "supportGeom", 369), "rotated")
        p == HPush(HNew(HUse(r, "rotated", 372), "positioned"), "positioned")
    IN  HDel(HDel(p, "supportGeom", 374), "rotated", 375)

\* Lines 380-381.
LetterCleanup(hs) ==
    HDel(HDel(hs, "resultManifold", 380), "transformed", 381)

BaseOutcomes == {"made", "none", "throws at union", "throws at rotate"}

\* Lines 398-441.
BaseHandles(hs, o) ==
    IF o = "throws at union" THEN HUseIds(hs, hs.parts, 399)
    ELSE LET u == HNew(HUseIds(hs, hs.parts, 399), "lettersUnion")
             m == HDel(HUse(u, "lettersUnion", 400), "lettersUnion", 404)
             raw == HNew(m, "baseManifoldRaw")
         IN  IF o = "none" THEN m
             ELSE IF o = "throws at rotate" THEN HUse(raw, "baseManifoldRaw", 431)
             ELSE LET r == HDel(HNew(HUse(raw, "baseManifoldRaw", 431),
                                     "baseRotated"),
                                "baseManifoldRaw", 432)
                      f == HDel(HNew(HUse(r, "baseRotated", 434), "baseFinal"),
                                "baseRotated", 435)
                  IN  HPush(f, "baseFinal")

\* Lines 469-477: the components are measured; those of kept stay, the
\* others are deleted.
RECURSIVE SortComponents(_, _, _, _)
SortComponents(hs, first, count, kept) ==
    IF count = 0 THEN hs
    ELSE LET h == SortComponents(hs, first, count - 1, kept)
             id == first + count - 1
         IN  IF count \in kept THEN HUseId(h, id, 470)
             ELSE HDelId(HUseId(h, id, 470), id, 474)

KeptIds(first, count, kept) ==
    LET RECURSIVE Pick(_)
        Pick(k) == IF k > count THEN << >>
                   ELSE IF k \in kept THEN <<first + k - 1>> \o Pick(k + 1)
                   ELSE Pick(k + 1)
    IN  Pick(1)

\* Lines 445-496, the union having succeeded: with a base the result is
\* decomposed into count components of which those of kept touch the bed.
FinalHandles(hs, withBase, count, kept) ==
    LET f == HNew(HUseIds(hs, hs.parts, 445), "finalManifold")
        d == HAlias(HDelIds(f, f.parts, 448), "cleanManifold", "finalManifold")
        first == Len(d.st) + 1
        c == HNewMany(HUse(d, "finalManifold", 458), count)
        keptIds == KeptIds(first, count, kept)
        s == SortComponents(HUse(c, "finalManifold", 464), first, count, kept)
        clean ==
            IF ~withBase THEN d
            ELSE IF count <= 1 THEN c
            ELSE IF Cardinality(kept) < count
                   THEN HDel(HDelIds(HNew(HUseIds(s, keptIds, 480),
                                          "cleanManifold"),
                                     keptIds, 481),
                             "finalManifold", 482)
                   ELSE HAlias(HDelIds(s, keptIds, 488),
                               "cleanManifold", "finalManifold")
    IN  HDel(HUse(clean, "cleanManifold", 495), "cleanManifold", 496)

Run(at, n, base, k, hs, f) ==
    [pc |-> at, length |-> n, withBase |-> base, i |-> k, hs |-> hs,
     faults |-> f]

\* The kernel is ready; the run enters the loop with length pairs.
InitHandles ==
    /\ \E n \in 1..MaxLen, base \in BOOLEAN :
         handleRun = Run("loop", n, base, 0, NoHandles, 0)
    /\ GenIdle /\ BridgeIdle /\ AppIdle /\ CacheIdle /\ SyncIdle /\ LoopIdle

HSet(r) ==
    /\ handleRun' = r
    /\ UNCHANGED <<genVars, bridgeVars, appVars, cacheVars, syncVars, loopVars>>

MayThrow(o) == Throws(o) => handleRun.faults < MaxFaults
Thrown(o) == handleRun.faults + (IF Throws(o) THEN 1 ELSE 0)

\* Lines 238-249 and 393-395: the next pair, which may be two spaces, or
\* the end of the loop.
HNextPair ==
    /\ handleRun.pc = "loop"
    /\ IF handleRun.i < handleRun.length
         THEN \E spaces \in BOOLEAN :
                HSet([handleRun EXCEPT
                        !.pc = IF spaces THEN "loop" ELSE "chars",
                        !.i = IF spaces THEN @ + 1 ELSE @])
         ELSE HSet([handleRun EXCEPT
                      !.pc = IF handleRun.hs.parts = << >> THEN "failed"
                             ELSE "base"])

\* Lines 257-291: a throw while the first solid is prepared skips the
\* second.
HPrepareChars ==
    /\ handleRun.pc = "chars"
    /\ \E o1, o2 \in PrepOutcomes :
         /\ Throws(o1) => o2 = "none"
         /\ MayThrow(o1) /\ MayThrow(o2)
         /\ HSet([handleRun EXCEPT
                    !.pc = "combine",
                    !.hs = LET h1 == PrepChar(handleRun.hs, "m1", o1)
                           IN  IF Throws(o1) THEN h1
                               ELSE PrepChar(h1, "m2", o2),
                    !.faults = IF Throws(o1) \/ Throws(o2) THEN @ + 1 ELSE @])

\* Lines 293-317 and 388-390.
HCombine ==
    /\ handleRun.pc = "combine"
    /\ \E o \in CombineOutcomes :
         /\ MayThrow(o)
         /\ (handleRun.hs.ids["m1"] = 0 \/ handleRun.hs.ids["m2"] = 0) => o = "made"
         /\ LET h == CombineChars(handleRun.hs, o)
            IN  IF h.ids["resultManifold"] = 0
                  THEN HSet([handleRun EXCEPT !.pc = "loop", !.i = @ + 1,
                                              !.hs = EndOfBody(h),
                                              !.faults = Thrown(o)])
                  ELSE HSet([handleRun EXCEPT !.pc = "bridge", !.hs = h,
                                              !.faults = Thrown(o)])

\* Lines 320-323.
HAutoBridge ==
    /\ handleRun.pc = "bridge"
    /\ \/ HSet([handleRun EXCEPT !.pc = "place"])
       \/ \E count \in 1..MaxComps, made \in 0..(MaxComps - 1),
             thrown \in BOOLEAN, unionThrows \in BOOLEAN :
            /\ made + (IF thrown THEN 1 ELSE 0) <= count - 1
            /\ (count <= 1) => ~unionThrows
            /\ (thrown \/ unionThrows) => handleRun.faults < MaxFaults
            /\ ~(thrown /\ unionThrows)
            /\ HSet([handleRun EXCEPT
                       !.pc = IF unionThrows THEN "failed" ELSE "place",
                       !.hs = AutoBridgeHandles(handleRun.hs, count, made,
                                                unionThrows),
                       !.faults = IF thrown \/ unionThrows THEN @ + 1 ELSE @])

\* Lines 325-339 and 384-387.
HPlace ==
    /\ handleRun.pc = "place"
    /\ \E wide \in BOOLEAN :
         LET b == HUse(handleRun.hs, "resultManifold", 325)
         IN  IF wide
               THEN HSet([handleRun EXCEPT !.pc = "mbridge",
                                           !.hs = PlaceHandles(b)])
               ELSE HSet([handleRun EXCEPT
                            !.pc = "loop", !.i = @ + 1,
                            !.hs = EndOfBody(HDel(b, "resultManifold", 385))])

\* Lines 341-360.
HManualBridge ==
    /\ handleRun.pc = "mbridge"
    /\ \/ HSet([handleRun EXCEPT !.pc = "support"])
       \/ \E rotates \in BOOLEAN, o \in ManualBridgeOutcomes :
            /\ MayThrow(o)
            /\ o = "throws at rotate" => rotates
            /\ HSet([handleRun EXCEPT
                       !.pc = "support",
                       !.hs = ManualBridgeHandles(handleRun.hs, rotates, o),
                       !.faults = Thrown(o)])

\* Lines 362-383.
HSupport ==
    /\ handleRun.pc = "support"
    /\ \E pillar \in BOOLEAN :
         HSet([handleRun EXCEPT
                 !.pc = "loop", !.i = @ + 1,
                 !.hs = EndOfBody(LetterCleanup(
                          IF pillar THEN SupportHandles(handleRun.hs)
                          ELSE handleRun.hs))])

\* Lines 397-441.
HCreateBase ==
    /\ handleRun.pc = "base"
    /\ IF handleRun.withBase
         THEN \E o \in BaseOutcomes :
                /\ MayThrow(o)
                /\ HSet([handleRun EXCEPT !.pc = "merge",
                                          !.hs = BaseHandles(handleRun.hs, o),
                                          !.faults = Thrown(o)])
         ELSE HSet([handleRun EXCEPT !.pc = "merge"])

\* Lines 443-508.
HFinish ==
    /\ handleRun.pc = "merge"
    /\ \/ /\ handleRun.faults < MaxFaults
          /\ HSet([handleRun EXCEPT
                     !.pc = "failed", !.faults = @ + 1,
                     !.hs = HUseIds(handleRun.hs, handleRun.hs.parts, 445)])
       \/ \E count \in 1..MaxComps :
            \E kept \in (SUBSET (1..count)) \ {{}} :
              /\ ~handleRun.withBase => (count = 1 /\ kept = {1})
              /\ HSet([handleRun EXCEPT
                         !.pc = "done",
                         !.hs = FinalHandles(handleRun.hs, handleRun.withBase,
                                             count, kept)])

NextHandles ==
    \/ HNextPair
    \/ HPrepareChars
    \/ HCombine
    \/ HAutoBridge
    \/ HPlace
    \/ HManualBridge
    \/ HSupport
    \/ HCreateBase
    \/ HFinish

SpecHandles == InitHandles /\ [][NextHandles]_vars

\* C28: in every run, the paths on which a kernel call throws and is caught
\* included, no handle is deleted twice and none is used after it was
\* deleted.
C28_NoHandleMisused == handleRun.pc # "idle" => handleRun.hs.misuse = {}

\* The run ended after a throw that was caught; three parts or more were
\* merged, the floating components were deleted, and every handle made
\* since the last pair has been released once.
C28_Witness ==
    /\ handleRun.pc = "done" /\ handleRun.withBase /\ handleRun.faults = 1
    /\ handleRun.hs.misuse = {}
    /\ Len(handleRun.hs.parts) >= 3
    /\ Len(handleRun.hs.st) >= Len(handleRun.hs.parts) + 5
    /\ \A id \in 1..Len(handleRun.hs.st) : handleRun.hs.st[id] = "released"
    /\ handleRun.hs.ids["cleanManifold"] # handleRun.hs.ids["finalManifold"]

(* --------------------------- the two caches --------------------------- *)
\* The font URLs a caller may ask for.
Urls == {"a.ttf", "b.ttf"}

\* A fresh process: both caches empty, nobody has called yet.
InitCache ==
    /\ wasm = 0
    /\ cachedFont = "" /\ cachedFontName = ""
    /\ callers = << >>
    /\ kernelInits = 0
    /\ fetches = [u \in Urls |-> 0]
    /\ GenIdle /\ BridgeIdle /\ AppIdle /\ SyncIdle /\ LoopIdle /\ HandleIdle

Call(fn, url, at, got) == [fn |-> fn, url |-> url, pc |-> at, got |-> got]

\* getManifold, lines 6-9: a caller (a generation run) gets the cached
\* module, or starts Module() when wasm is still null.
CallGetManifold ==
    /\ Len(callers) < MaxCalls
    /\ callers' = Append(callers,
                     IF wasm # 0 THEN Call("getManifold", "", "done", wasm)
                     ELSE Call("getManifold", "", "loading", 0))
    /\ UNCHANGED <<wasm, cachedFont, cachedFontName, kernelInits, fetches>>
    /\ UNCHANGED <<genVars, bridgeVars, appVars, syncVars, loopVars, handleVars>>

\* getManifold, lines 9-34: Module() and setup() of caller c have
\* settled; on success this caller's instance becomes the cached module.
KernelReady(c) ==
    /\ callers[c].fn = "getManifold" /\ callers[c].pc = "loading"
    /\ \E ok \in BOOLEAN :
         IF ok
           THEN /\ wasm' = c
                /\ kernelInits' = kernelInits + 1
                /\ callers' = [callers EXCEPT ![c].pc = "done", ![c].got = c]
           ELSE /\ callers' = [callers EXCEPT ![c].pc = "failed"]
                /\ UNCHANGED <<wasm, kernelInits>>
    /\ UNCHANGED <<cachedFont, cachedFontName, fetches>>
    /\ UNCHANGED <<genVars, bridgeVars, appVars, syncVars, loopVars, handleVars>>

\* loadFont, lines 7-14: a caller (the preload effect, the preview, a
\* generation run) gets the cached font when it was parsed from this URL,
\* or starts a fetch.
CallLoadFont ==
    /\ Len(callers) < MaxCalls
    /\ \E url \in Urls :
         callers' = Append(callers,
                      IF cachedFont # "" /\ cachedFontName = url
                        THEN Call("loadFont", url, "done", cachedFont)
                        ELSE Call("loadFont", url, "loading", ""))
    /\ UNCHANGED <<wasm, cachedFont, cachedFontName, kernelInits, fetches>>
    /\ UNCHANGED <<genVars, bridgeVars, appVars, syncVars, loopVars, handleVars>>

\* (variant: the URL is remembered even when the load fails)
FontLoadedRemembersFailure(c) ==
    /\ callers[c].fn = "loadFont" /\ callers[c].pc = "loading"
    /\ \E ok \in BOOLEAN :
         IF ok
           THEN /\ cachedFont' = callers[c].url
                /\ cachedFontName' = callers[c].url
                /\ fetches' = [fetches EXCEPT ![callers[c].url] = @ + 1]
                /\ callers' = [callers EXCEPT ![c].pc = "done",
                                              ![c].got = callers[c].url]
           ELSE /\ callers' = [callers EXCEPT ![c].pc = "failed"]
                /\ cachedFontName' = callers[c].url
                /\ UNCHANGED <<cachedFont, fetches>>
    /\ UNCHANGED <<wasm, kernelInits>>
    /\ UNCHANGED <<genVars, bridgeVars, appVars, syncVars, loopVars, handleVars>>

\* loadFont, lines 14-31: the fetch of caller c has ended; a parsed font
\* replaces the cache.
FontLoaded(c) ==
    /\ callers[c].fn = "loadFont" /\ callers[c].pc = "loading"
    /\ \E ok \in BOOLEAN :
         IF ok
           THEN /\ cachedFont' = callers[c].url
                /\ cachedFontName' = callers[c].url
                /\ fetches' = [fetches EXCEPT ![callers[c].url] = @ + 1]
                /\ callers' = [callers EXCEPT ![c].pc = "done",
                                              ![c].got = callers[c].url]
           ELSE /\ callers' = [callers EXCEPT ![c].pc = "failed"]
                /\ UNCHANGED <<cachedFont, cachedFontName, fetches>>
    /\ UNCHANGED <<wasm, kernelInits>>
    /\ UNCHANGED <<genVars, bridgeVars, appVars, syncVars, loopVars, handleVars>>

KernelSome == \E c \in 1..Len(callers) : KernelReady(c)
FontSome == \E c \in 1..Len(callers) : FontLoaded(c)

NextCache == CallGetManifold \/ KernelSome \/ CallLoadFont \/ FontSome

SpecCache == InitCache /\ [][NextCache]_vars

\* All callers of loadFont so far asked for url.
OnlyRequested(url) ==
    \A c \in 1..Len(callers) :
        callers[c].fn = "loadFont" => callers[c].url = url

\* C14 (as claimed): the kernel module is initialised at most once in a
\* process, and a font URL is fetched and parsed at most once while it is
\* the only URL asked for, whatever the interleaving of the callers.
C14_InitializedOnce ==
    /\ kernelInits <= 1
    /\ \A url \in Urls : OnlyRequested(url) => fetches[url] <= 1

\* C30: whatever the interleaving of the calls of loadFont, a call that
\* succeeds resolves with the font parsed from its own URL; the cache holds a
\* font exactly when it holds a name, and the font is the one parsed from
\* that name; a load that fails leaves the cache as it was.
C30_FontCacheConsistent ==
    [][/\ (cachedFont' = "") <=> (cachedFontName' = "")
       /\ cachedFont' = cachedFontName'
       /\ \A c \in 1..Len(callers') :
            (callers'[c].fn = "loadFont" /\ callers'[c].pc = "done") =>
                callers'[c].got = callers'[c].url
       /\ \A c \in 1..Len(callers) :
            (callers[c].fn = "loadFont" /\ callers'[c].pc = "failed"
               /\ callers[c].pc # "failed") =>
                /\ cachedFont' = cachedFont
                /\ cachedFontName' = cachedFontName]_vars

\* Three calls: the first, for a.ttf, ended after the second, for b.ttf,
\* and both got their own font; the third, for b.ttf, failed after them.
C30_Witness ==
    /\ Len(callers) = 3
    /\ \A c \in 1..3 : callers[c].fn = "loadFont"
    /\ callers[1].url = "a.ttf" /\ callers[1].pc = "done" /\ callers[1].got = "a.ttf"
    /\ callers[2].url = "b.ttf" /\ callers[2].pc = "done" /\ callers[2].got = "b.ttf"
    /\ callers[3].url = "b.ttf" /\ callers[3].pc = "failed"
    /\ cachedFont = "a.ttf" /\ cachedFontName = "a.ttf"
    /\ fetches["a.ttf"] = 1 /\ fetches["b.ttf"] = 1

(* ------------------------ applyAutoBridge alone ------------------------ *)
\* The solids handed to applyAutoBridge: a stack of up to MaxComps pieces,
\* each piece above the one before with one of these gaps (negative: the
\* pieces overlap in Y) and beside it or in line with it.
BridgeGaps == {0 - 200, 0 - 199, 199, 200, 2000}
BridgeShifts == {0, 3000}
Piece(dx, y) == Box(dx - 500, dx + 500, y, y + 1000, 0 - 500, 500)

RECURSIVE Stack(_)
Stack(steps) ==
    IF steps = << >> THEN {Piece(0, 0)}
    ELSE LET below == Stack(SubSeq(steps, 1, Len(steps) - 1))
             st == steps[Len(steps)]
         IN  below \cup {Piece(st.dx, MaxY(below) + st.gap)}

BridgeInputs ==
    { Stack(steps) :
        steps \in UNION { [1..n -> [dx : BridgeShifts, gap : BridgeGaps]] :
                            n \in 0..(MaxComps - 1) } }

\* applyAutoBridge(inputManifold, m) is called.  bridgeGeoms keeps with each
\* connector the index of the pair it was made for, and warned the pairs
\* whose cylinder call threw ("Auto bridge failed").
InitBridge ==
    /\ bridgeCall \in { [pc |-> "decompose", input |-> s, parts |-> << >>,
                          i |-> 1, bridgeGeoms |-> << >>, warned |-> {},
                          result |-> {}] : s \in BridgeInputs }
    /\ GenIdle /\ AppIdle /\ CacheIdle /\ SyncIdle /\ LoopIdle /\ HandleIdle

\* Lines 133-153: decompose; up to one component the input is returned,
\* otherwise the components are sorted by their minimum Y.
BridgeDecompose ==
    /\ bridgeCall.pc = "decompose"
    /\ IF Cardinality(Decompose(bridgeCall.input)) <= 1
         THEN bridgeCall' = [bridgeCall EXCEPT !.pc = "returned",
                                               !.result = bridgeCall.input]
         ELSE \E q \in SortedOrders(Decompose(bridgeCall.input)) :
                bridgeCall' = [bridgeCall EXCEPT !.pc = "loop", !.parts = q]
    /\ UNCHANGED <<genVars, appVars, cacheVars, syncVars, loopVars, handleVars>>

\* Lines 157-193: one round of the loop over the neighbours of the list.
BridgePair ==
    /\ bridgeCall.pc = "loop"
    /\ bridgeCall.i < Len(bridgeCall.parts)
    /\ LET k == bridgeCall.i
           lower == bridgeCall.parts[k]
           upper == bridgeCall.parts[k + 1]
       IN  IF NeedsBridge(lower, upper)
             THEN \E ok \in BOOLEAN :
                    bridgeCall' =
                      IF ok
                        THEN [bridgeCall EXCEPT
                                !.i = k + 1,
                                !.bridgeGeoms =
                                   Append(@, [at |-> k,
                                              solid |-> Connector(lower, upper)])]
                        ELSE [bridgeCall EXCEPT !.i = k + 1,
                                                !.warned = @ \cup {k}]
             ELSE bridgeCall' = [bridgeCall EXCEPT !.i = k + 1]
    /\ UNCHANGED <<genVars, appVars, cacheVars, syncVars, loopVars, handleVars>>

\* Lines 196-205: the union of the components and the connectors.
BridgeUnion ==
    /\ bridgeCall.pc = "loop"
    /\ bridgeCall.i = Len(bridgeCall.parts)
    /\ bridgeCall' =
         [bridgeCall EXCEPT
            !.pc = "returned",
            !.result = UNION { bridgeCall.parts[k] :
                                 k \in 1..Len(bridgeCall.parts) }
                         \cup UNION { bridgeCall.bridgeGeoms[n].solid :
                                        n \in 1..Len(bridgeCall.bridgeGeoms) }]
    /\ UNCHANGED <<genVars, appVars, cacheVars, syncVars, loopVars, handleVars>>

NextBridge == BridgeDecompose \/ BridgePair \/ BridgeUnion

SpecBridge == InitBridge /\ [][NextBridge]_vars

\* The pairs of neighbours that got a connector, and the gap of a pair.
BridgedPairs ==
    { bridgeCall.bridgeGeoms[n].at : n \in 1..Len(bridgeCall.bridgeGeoms) }
PairGap(a) == MinY(bridgeCall.parts[a + 1]) - MaxY(bridgeCall.parts[a])

\* C19 (as claimed): a pair of neighbours gets a connector only when its
\* gap upper.minY - lower.maxY is below the tolerance of 0.2.
C19_ConnectorOnlyBelowTol ==
    bridgeCall.pc \in {"loop", "returned"} =>
        \A a \in BridgedPairs : PairGap(a) < BridgeTol

\* C19 (amended): a pair of neighbours the loop has looked at has a
\* connector exactly when its gap upper.minY - lower.maxY is above -0.2,
\* however large, and the cylinder call did not throw; pairs that overlap
\* by 0.2 or more get none.
C19_ConnectorIffGapAboveMinusTol ==
    bridgeCall.pc \in {"loop", "returned"} =>
        \A a \in 1..(bridgeCall.i - 1) :
            /\ a \in BridgedPairs
                 <=> (PairGap(a) > 0 - BridgeTol /\ a \notin bridgeCall.warned)
            /\ a \in bridgeCall.warned => PairGap(a) > 0 - BridgeTol

C19_Witness ==
    /\ bridgeCall.pc = "returned"
    /\ Len(bridgeCall.parts) = 3
    /\ PairGap(1) = 0 - BridgeTol /\ 1 \notin BridgedPairs
    /\ PairGap(2) = 2000 /\ 2 \in BridgedPairs

\* C21 (as claimed): the solid returned for an input of two or more
\* components holds all of them and is one connected component; an input
\* of at most one component is returned as it is (calls in which a
\* cylinder threw are left aside).
C21_BridgedIsOneComponent ==
    (bridgeCall.pc = "returned" /\ bridgeCall.warned = {}) =>
        IF Cardinality(Decompose(bridgeCall.input)) >= 2
          THEN /\ bridgeCall.input \subseteq bridgeCall.result
               /\ Cardinality(Decompose(bridgeCall.result)) = 1
          ELSE bridgeCall.result = bridgeCall.input

(* ------------------------------ layout -------------------------------- *)
\* The placed letter of position k (positions count from 0).
LetterAt(k) ==
    (CHOOSE p \in {parts[n] : n \in 1..Len(parts)} :
        p.kind = "letter" /\ p.pos = k).solid

HasLetter(k) ==
    \E n \in 1..Len(parts) : parts[n].kind = "letter" /\ parts[n].pos = k

\* X centre of the bounding box of the placed letter of log entry k.
PlacedX(k) == Mid(MinX(LetterAt(k - 1)), MaxX(LetterAt(k - 1)))
PlacedZ(k) == Mid(MinZ(LetterAt(k - 1)), MaxZ(LetterAt(k - 1)))

Emitted == { k \in 1..Len(log) : log[k].emitted }

RECURSIVE SumAdvances(_, _)
SumAdvances(lg, st) ==
    IF lg = << >> THEN 0
    ELSE LET e == lg[Len(lg)]
             gap == (st.fontSize * st.spacing) \div 100
         IN  SumAdvances(SubSeq(lg, 1, Len(lg) - 1), st)
               + (IF e.emitted THEN e.width + gap
                  ELSE gap + st.fontSize \div 2)

\* C1: the cursor starts at 0 and after positions 0..k equals the sum of
\* width + gap over the positions that emitted a letter and of
\* gap + fontSize/2 over the others; width is the X extent of the pair
\* solid before the scale override (the placed letter is scaleX times as
\* wide), so the advance does not depend on the pair's overrides.
C1_CursorIsSumOfAdvances ==
    /\ Len(log) = i
    /\ currentXOffset = SumAdvances(log, settings)
    /\ \A k \in 1..Len(log) :
         /\ log[k].emitted <=> HasLetter(k - 1)
         /\ log[k].emitted =>
              Width(LetterAt(k - 1)) = log[k].scaleX * log[k].width

C1_Witness ==
    /\ pc = "loop" /\ i = length /\ i >= 2
    /\ \E a, b \in 1..Len(log) :
         /\ log[a].emitted /\ log[a].scaleX = 2 /\ log[a].moveX # 0
         /\ ~log[b].emitted

\* C2 (as claimed): the X centre of the bounding box of every placed letter
\* is cursor + width/2 + moveX and its Z centre is moveZ, whatever the pair
\* solid and the scale overrides.
C2_PlacedCentreIsAnchor ==
    \A k \in Emitted :
        /\ PlacedX(k) = log[k].cursor + log[k].width \div 2 + log[k].moveX
        /\ PlacedZ(k) = log[k].moveZ

\* C3 (as claimed): for positions a < b that both emitted a letter the
\* placed X centre of b is at least the placed X centre of a plus half
\* their combined widths, whatever the overrides, when spacing >= 0.
C3_PlacedCentresMonotone ==
    settings.spacing >= 0 =>
      \A a, b \in Emitted :
          a < b => PlacedX(b) >= PlacedX(a)
                                  + (log[a].width + log[b].width) \div 2

\* The layout anchor of a placed letter: its placed X centre without the
\* moveX override and without the scaled offset of the solid's own centre.
Anchor(k) == PlacedX(k) - log[k].moveX - log[k].scaleX * log[k].solidX

\* C3 (amended): for positions a < b that both emitted a letter the layout
\* anchor cursor + width/2 of b is at least the anchor of a plus half their
\* combined unscaled widths, when spacing >= 0.
C3_AnchorsMonotone ==
    settings.spacing >= 0 =>
      \A a, b \in Emitted :
          /\ Anchor(a) = log[a].cursor + log[a].width \div 2
          /\ a < b => Anchor(b) >= Anchor(a)
                                    + (log[a].width + log[b].width) \div 2

C3_Witness ==
    /\ pc = "loop"
    /\ \E a, b \in Emitted :
         /\ a < b
         /\ log[a].moveX > 0 /\ log[b].moveX < 0
         /\ PlacedX(b) < PlacedX(a) + (log[a].width + log[b].width) \div 2

(* ------------------------- pair construction -------------------------- *)
\* The filler advance, from the settings.
FillerAdvance == (settings.fontSize * settings.spacing) \div 100
                   + settings.fontSize \div 2

LastWhy(lg) == lg[Len(lg)].why

\* A position ended without a letter in this step.
SkippedNow ==
    /\ pc' = "loop"
    /\ Len(log') = Len(log) + 1
    /\ ~log'[Len(log')].emitted
    /\ parts' = parts
    /\ currentXOffset' = currentXOffset + FillerAdvance
    /\ IsNull(resultManifold')

\* C4: when both characters yield solids and the intersection is narrower
\* or lower than 0.001, or the intersect call fails, the position emits
\* nothing, the result is dropped and the cursor moves by the filler
\* advance; an intersection that goes on to layout is never degenerate.
C4_DegenerateIsFiller ==
    /\ [](pc = "bridge" /\ trace.isect = "ok" =>
            /\ Width(resultManifold.boxes) >= Eps
            /\ Height(resultManifold.boxes) >= Eps)
    /\ [][pc = "combine" /\ ~IsNull(m1) /\ ~IsNull(m2) /\ pc' = "loop" =>
            /\ SkippedNow
            /\ LastWhy(log') \in {"degenerate", "threw"}]_vars

C4_Witness ==
    /\ pc = "loop"
    /\ \E k \in 1..Len(log) :
         /\ log[k].why = "degenerate"
         /\ ~HasLetter(k - 1)
         /\ \A n \in 1..Len(parts) : parts[n].pos # k - 1

\* The font has an outline for the character.
Usable(c) == ~IsSpace(c) /\ RawGlyph(c, settings.fontSize) # {}

HasBase == \E n \in 1..Len(parts) : parts[n].kind = "base"

\* C6: when no position emitted a part the run fails with the "no printable
\* geometry" error before base synthesis or any union; that error is not
\* the merge error, and a returned mesh is never empty.
C6_EmptyAssemblyRejected ==
    /\ []((pc \in {"base", "merge", "done"}
             \/ error = "FinalMergeFailed") => Len(parts) > 0)
    /\ [](error = "NoPrintableGeometry" =>
            /\ pc = "failed" /\ Len(parts) = 0 /\ ~HasBase
            /\ IsNull(finalManifold) /\ IsNull(resultGeom))
    /\ [](pc = "done" => ~IsNull(resultGeom) /\ resultGeom.boxes # {})
    /\ [][pc = "loop" /\ i >= length /\ Len(parts) = 0 =>
            pc' = "failed" /\ error' = "NoPrintableGeometry"]_vars

C6_Witness ==
    /\ pc = "failed" /\ error = "NoPrintableGeometry"
    /\ Len(log) = length /\ Len(parts) = 0

\* C7 (as claimed): with baseHeight > 0 a failure of base synthesis aborts
\* the run, so a returned mesh always contains the requested base.
C7_RequestedBasePresent ==
    (pc = "done" /\ settings.baseHeight > 0) => HasBase

\* C8 (as claimed): a kernel failure while building one part (character
\* solids, intersection, auto bridge, manual bridge, placement, support)
\* never aborts the run.
C8_PartFailureAbsorbed ==
    ~(pc = "failed" /\ error = "KernelException"
        /\ trace.fault \in {"autobridge", "place", "support"})

\* C9: with baseHeight > 0 and more than one component in the final solid
\* a component is retained exactly when its minimum Y is at most the
\* minimum Y of the final solid plus 0.2; with baseHeight <= 0 (or a single
\* component) nothing is removed.
C9_KeptIffTouchesBed ==
    pc = "done" =>
      LET final == finalManifold.boxes
          clean == cleanManifold.boxes
          comps == Decompose(final)
      IN  IF settings.baseHeight > 0 /\ Cardinality(comps) > 1
            THEN /\ clean \subseteq final
                 /\ \A c \in comps :
                      IF MinY(c) <= MinY(final) + 200
                        THEN c \subseteq clean
                        ELSE c \cap clean = {}
                 /\ \A c \in Decompose(clean) :
                      MinY(c) <= MinY(final) + 200
            ELSE clean = final

C9_Witness ==
    /\ pc = "done" /\ settings.baseHeight > 0
    /\ \E c \in Decompose(finalManifold.boxes) :
         /\ MinY(c) > MinY(finalManifold.boxes) + 200
         /\ c \cap cleanManifold.boxes = {}
    /\ \E c \in Decompose(finalManifold.boxes) :
         c \subseteq cleanManifold.boxes /\ MaxY(c) > 0

\* C10: the filter never yields an empty solid: the filtered result has at
\* least one component, and were no component retained the unfiltered
\* solid would be returned.
C10_FilterNeverEmpty ==
    pc = "done" =>
      LET final == finalManifold.boxes
          clean == cleanManifold.boxes
          retained == { c \in Decompose(final) :
                          MinY(c) <= MinY(final) + 200 }
      IN  /\ final # {} => Cardinality(Decompose(clean)) >= 1
          /\ retained = {} => clean = final

C10_Witness ==
    /\ pc = "done" /\ settings.baseHeight > 0
    /\ Cardinality(Decompose(finalManifold.boxes)) > 1
    /\ Cardinality(Decompose(cleanManifold.boxes)) = 1
    /\ cleanManifold.boxes # finalManifold.boxes
    /\ MaxY(cleanManifold.boxes) < MaxY(finalManifold.boxes)

(* ------------------------------ start-up ------------------------------ *)
\* No position has been begun and no solid exists.
NothingBuilt ==
    /\ i = 0 /\ log = << >> /\ parts = << >> /\ live = 0
    /\ config = IdleConfig
    /\ IsNull(m1) /\ IsNull(m2) /\ IsNull(resultManifold)
    /\ IsNull(finalManifold) /\ IsNull(resultGeom)

\* C13: no position is processed and no solid is created before both the
\* font load and the kernel initialisation have completed successfully;
\* with an empty fontUrl, or when either of them fails, the run fails
\* without having created a solid.
C13_NoSolidBeforeReady ==
    /\ (fontLoad # "ready" \/ kernelLoad # "ready") =>
          pc \in {"start", "await", "failed"} /\ NothingBuilt
    /\ settings.fontUrl = "" =>
          /\ pc \in {"start", "failed"}
          /\ pc = "failed" => error = "NoFontSelected"
    /\ (pc = "await" /\ "failed" \in {fontLoad, kernelLoad}) =>
          ~ENABLED BeginPosition
    /\ error \in {"NoFontSelected", "LoadFailed"} =>
          pc = "failed" /\ NothingBuilt

C13_Witness ==
    /\ pc = "failed" /\ error = "LoadFailed"
    /\ fontLoad = "ready" /\ kernelLoad = "failed"

(* ------------------------------ handles ------------------------------- *)
\* C15 (as claimed): when the run returns a mesh every handle created
\* during the run has been deleted.
C15_AllHandlesReleased == pc = "done" => live = 0

(* ------------------------- supports and base -------------------------- *)
Pillars(k) ==
    { n \in 1..Len(parts) : parts[n].kind = "support" /\ parts[n].pos = k - 1 }

BaseBottomY ==
    IF settings.baseHeight > 0
      THEN settings.embedDepth - settings.baseHeight ELSE 0

\* C17: the pillar of a pair that emitted a letter and has its support
\* enabled spans [baseBottomY, baseBottomY + height] in Y, with
\* baseBottomY = embedDepth - baseHeight under a base and 0 without, and is
\* centred in X / Z on the placement centre plus moveX / moveZ.
C17_PillarSpansFromBaseBottom ==
    \A k \in Emitted :
        /\ Cardinality(Pillars(k)) <= 1
        /\ ~log[k].support.enabled => Pillars(k) = {}
        /\ \A n \in Pillars(k) :
             LET p == parts[n].solid
             IN  /\ MinY(p) = BaseBottomY
                 /\ MaxY(p) = BaseBottomY + log[k].support.height
                 /\ MinX(p) + MaxX(p) = 2 * (log[k].centerX + log[k].moveX)
                 /\ MinZ(p) + MaxZ(p) = 2 * log[k].moveZ

C17_Witness ==
    /\ pc = "done" /\ settings.baseHeight > 0 /\ settings.embedDepth # 0
    /\ \E k \in Emitted : Pillars(k) # {} /\ log[k].cursor > 0

BaseAt(n) == parts[n].kind = "base"

\* C18: with baseHeight > 0 a base that was synthesized spans
\* [embedDepth - baseHeight, embedDepth] in Y, is centred in X / Z on the
\* bounding box of all parts placed before it and is that box enlarged by
\* basePadding in X and in Z; with baseHeight <= 0 there is no base.
C18_BaseUnderAssembly ==
    /\ settings.baseHeight <= 0 => ~HasBase
    /\ (pc \in {"merge", "done"} /\ settings.baseHeight > 0
          /\ trace.fault # "base") => HasBase
    /\ \A n \in 1..Len(parts) : BaseAt(n) =>
         LET b == parts[n].solid
             before == UnionAll([k \in 1..(n - 1) |-> parts[k].solid])
         IN  /\ n = Len(parts) /\ n > 1
             /\ MinY(b) = settings.embedDepth - settings.baseHeight
             /\ MaxY(b) = settings.embedDepth
             /\ MaxX(b) - MinX(b)
                  = (MaxX(before) - MinX(before)) + settings.basePadding
             /\ MaxZ(b) - MinZ(b)
                  = (MaxZ(before) - MinZ(before)) + settings.basePadding
             /\ Mid(MinX(b), MaxX(b)) = Mid(MinX(before), MaxX(before))
             /\ Mid(MinZ(b), MaxZ(b)) = Mid(MinZ(before), MaxZ(before))

C18_Witness ==
    /\ pc = "done" /\ HasBase /\ settings.basePadding > 0
    /\ \E n \in 1..Len(parts) : parts[n].kind = "support"
    /\ \E n \in 1..Len(parts) : parts[n].kind = "letter" /\ parts[n].pos = 1

(* ---------------------------- bridge modes ---------------------------- *)
AutoMode(cfg) == cfg.bridge.enabled /\ cfg.bridge.auto
ManualMode(cfg) == cfg.bridge.enabled /\ ~cfg.bridge.auto

\* C20: with bridge.enabled and bridge.auto the pair solid is bridged
\* before placement, so the placement centre and the cursor advance use
\* the width of the bridged solid; without that mode the pair solid goes to
\* placement unchanged; a manual bridge box is emitted only with
\* bridge.enabled and not bridge.auto.
C20_BridgeBeforePlacement ==
    /\ [][pc = "bridge" /\ pc' = "place" =>
            IF AutoMode(config')
              THEN /\ resultManifold.boxes \subseteq resultManifold'.boxes
                   /\ Cardinality(Decompose(resultManifold.boxes)) > 1
                        /\ faults' = faults
                        => Cardinality(Decompose(resultManifold'.boxes)) = 1
              ELSE resultManifold' = resultManifold]_vars
    /\ [][pc = "place" /\ pc' = "mbridge" =>
            /\ resultManifold' = resultManifold
            /\ trace'.entry.width = Width(resultManifold.boxes)
            /\ trace'.entry.centerX
                 = currentXOffset + Width(resultManifold.boxes) \div 2]_vars
    /\ [][pc = "mbridge" /\ pc' = "support" =>
            /\ resultManifold' = resultManifold
            /\ parts' # parts =>
                 /\ ManualMode(config)
                 /\ parts' = Append(parts, parts'[Len(parts')])
                 /\ parts'[Len(parts')].kind = "bridge"]_vars
    /\ [][pc = "support" /\ pc' = "loop" =>
            currentXOffset' = currentXOffset + Width(resultManifold.boxes)
                                + (settings.fontSize * settings.spacing)
                                    \div 100]_vars

C20_Witness ==
    /\ pc = "support" /\ AutoMode(config)
    /\ Cardinality(resultManifold.boxes) = 3
    /\ Width(resultManifold.boxes) = 1800
    /\ trace.entry.width = 1800

TypeOK == pc \in {"start", "await", "loop", "chars", "combine", "bridge", "place",
                  "mbridge", "support", "base", "merge", "done",
                  "failed"}

====
